---- MODULE Spec2Model ----
(***************************************************************************)
(* Verification model of cargo-aprz: the request tracker and its progress  *)
(* reporter, the advisory scan, and the metric calculator with the ranker. *)
(***************************************************************************)
EXTENDS Integers, Sequences, FiniteSets, TLC

(***************************************************************************)
(* Bounds of the model                                                     *)
(***************************************************************************)
\* number of policies configured for a metric
MaxPolicies == 2
\* number of provider fields of the facts that are not Found
MaxMissing == 1
\* largest measurement in the facts
MaxValue == 2
\* number of CrateSpecs handed to scan_advisories
MaxSpecs == 2
\* number of advisories in the database
MaxAdvisories == 1
\* number of tracker calls started in one behaviour
MaxCalls == 4
\* largest count handed to add_many_requests
MaxMany == 1
\* number of calls of rank on one Ranker
MaxRankCalls == 2
\* number of days that pass while a Ranker is in use
MaxDays == 1
\* number of entries of the allow-list
MaxEntries == 1
\* number of dependencies that the gate sees
MaxDeps == 2
\* largest length and position of the progress bar
MaxLen == 1

(***************************************************************************)
(* Request tracker: state                                                  *)
(***************************************************************************)
Tasks == {"t1", "t2"}
Names == {"a", "b"}
NoTask == "none"

VARIABLES
    counters,        \* RequestTracker.counters: name -> RequestCounter
    mutex,           \* holder of the counters mutex, or NoTask
    pc,              \* position of each task inside a tracker call
    op,              \* the call each task is executing
    loc,             \* locals of update_progress of each task
    visible,         \* DelayedProgressState.visible
    has_content,     \* DelayedProgressState.has_content
    is_indeterminate,\* DelayedProgressState.is_indeterminate
    delay_elapsed,   \* start_time.elapsed() >= delay
    bar_length,      \* length of the inner ProgressBar
    bar_position,    \* position of the inner ProgressBar
    bar_message,     \* message of the inner ProgressBar
    published,       \* TRUE once update_progress has published a snapshot
    calls,           \* number of tracker calls started
    started,         \* history: per name, what the started calls asked for
    returned,        \* history: per name, what the returned calls asked for
    uncovered        \* history: names completed without a returned add

trackerVars == <<counters, mutex, pc, op, loc, visible, has_content,
                 is_indeterminate, delay_elapsed, bar_length, bar_position,
                 bar_message, published, calls, started, returned, uncovered>>

(***************************************************************************)
(* Advisory scan: state                                                    *)
(***************************************************************************)
VARIABLES
    scan_pc,            \* position inside scan_advisories
    crates,             \* the input of scan_advisories
    crates_left,        \* the inputs not yet put into crate_map
    crate_map,          \* name -> Vec<(CrateSpec, ProviderResult<AdvisoryData>)>
    advisories_checked, \* advisories the database iterator has yielded
    scan_output         \* the pairs the returned iterator has yielded

scanVars == <<scan_pc, crates, crates_left, crate_map, advisories_checked,
              scan_output>>

(***************************************************************************)
(* Ranker: state                                                           *)
(***************************************************************************)
VARIABLES
    rank_status,          \* "ready", then "returned" or "panicked"
    rank_config,          \* Ranker.config
    rank_facts,           \* the facts handed to rank
    rank_dependency_type, \* the dependency type handed to rank
    policy_outcomes,      \* Ranker.policy_outcomes
    rank_outcome,         \* the RankingOutcome that rank returned
    now,                  \* the clock that Utc::now() reads, in days
    rank_history          \* the calls of rank that returned, in order

rankVars == <<rank_status, rank_config, rank_facts, rank_dependency_type,
              policy_outcomes, rank_outcome, now, rank_history>>

(***************************************************************************)
(* Configuration, allow-list and gate: state                               *)
(***************************************************************************)
VARIABLES
    gate_status,   \* "start", "loaded" or "load_failed", then "exited"
    config_file,   \* what Config::load finds on disk
    load_result,   \* what Config::load returned
    allowed_call,  \* the last call of Config::is_allowed and its result
    appraised,     \* the dependencies appraised so far, with their risk
    exit_code      \* the flags and the exit code of the gate

gateVars == <<gate_status, config_file, load_result, allowed_call, appraised,
              exit_code>>

(***************************************************************************)
(* Progress reporter: state beside the fields the tracker publishes to     *)
(***************************************************************************)
VARIABLES
    bar_prefix,    \* prefix of the inner ProgressBar
    bar_finished,  \* TRUE once the inner ProgressBar was finished and cleared
    ticker,        \* the visibility task: "none", "running" or "aborted"
    revealed_by    \* history: the call that made the indicator visible

indicatorVars == <<bar_prefix, bar_finished, ticker, revealed_by>>

(***************************************************************************)
(* License check: state                                                    *)
(***************************************************************************)
VARIABLES
    lic_policy,    \* LicensePolicy.licenses of the policy under check
    lic_expr,      \* the license of the crate, "None" when it has none
    lic_result     \* what the predicate of the License metric returned

licenseVars == <<lic_policy, lic_expr, lic_result>>

LicenseIdle ==
    /\ lic_policy = {}
    /\ lic_expr = "None"
    /\ lic_result = <<>>

(***************************************************************************)
(* Policy validation: state                                                *)
(***************************************************************************)
VARIABLES
    val_metric,    \* the metric whose policies are validated
    val_policies,  \* the policies of the metric, in the order of the config
    val_warnings,  \* <<>>, or <<the warnings validate returned>>
    val_probe      \* <<>>, or <<an evaluation of the metric under the policies>>

validateVars == <<val_metric, val_policies, val_warnings, val_probe>>

ValidateIdle ==
    /\ val_metric = "License"
    /\ val_policies = <<>>
    /\ val_warnings = <<>>
    /\ val_probe = <<>>

(***************************************************************************)
(* Repository cache (git): state                                           *)
(***************************************************************************)
VARIABLES
    git_pc,        \* where the current call of get_repo stands
    repo_dir,      \* the cached path: "missing", "no_git" or "repo"
    git_runs,      \* the git subprocesses the current call ran, with results
    git_status,    \* <<>>, or <<what the current call of get_repo returned>>
    git_calls      \* the calls of get_repo made so far

gitVars == <<git_pc, repo_dir, git_runs, git_status, git_calls>>

GitIdle ==
    /\ git_pc = "off"
    /\ repo_dir = "missing"
    /\ git_runs = <<>>
    /\ git_status = <<>>
    /\ git_calls = 0

(***************************************************************************)
(* Advisory provider initialisation: state                                 *)
(***************************************************************************)
VARIABLES
    db_pc,         \* where the current call of Provider::new stands
    sync_marker,   \* what cache.load("last_synced.json") finds
    db_repo,       \* the cache's repo directory: "missing", "no_git", "clone"
    db_events,     \* what the current call did, in order
    db_result,     \* <<>>, or <<"Ok">> or <<"Err">> of the current call
    db_calls       \* the calls of Provider::new made so far

providerVars == <<db_pc, sync_marker, db_repo, db_events, db_result, db_calls>>

ProviderIdle ==
    /\ db_pc = "off"
    /\ sync_marker = "Miss"
    /\ db_repo = "missing"
    /\ db_events = <<>>
    /\ db_result = <<>>
    /\ db_calls = 0

(***************************************************************************)
(* Row iterator: state                                                     *)
(***************************************************************************)
VARIABLES
    row_widths,    \* the table under the reader: the bytes each row takes
    row_iter,      \* the RowIter: its reader and rows_remaining
    row_items,     \* what the calls of next returned, in order
    row_hint       \* <<>>, or <<what size_hint returned since the last next>>

rowVars == <<row_widths, row_iter, row_items, row_hint>>

RowsIdle ==
    /\ row_widths = <<>>
    /\ row_iter = [reader |-> [position |-> 0, rows_read |-> 0], rows_remaining |-> 0]
    /\ row_items = <<>>
    /\ row_hint = <<>>

\* the components that have a specification of their own further down
otherVars == <<licenseVars, validateVars, gitVars, providerVars, rowVars>>
OtherIdle == LicenseIdle /\ ValidateIdle /\ GitIdle /\ ProviderIdle /\ RowsIdle

vars == <<trackerVars, scanVars, rankVars, gateVars, indicatorVars, otherVars>>

(***************************************************************************)
(* Helpers                                                                 *)
(***************************************************************************)
\* String order of the names used ("a" < "b"), as names.sort() sees them.
NameRank(n) == IF n = "a" THEN 1 ELSE 2

RECURSIVE SortNamesReversed(_)
SortNamesReversed(S) ==
    IF S = {} THEN <<>>
    ELSE LET m == CHOOSE x \in S : \A y \in S : NameRank(x) >= NameRank(y)
         IN <<m>> \o SortNamesReversed(S \ {m})

\* names.sort()
RECURSIVE SortNames(_)
SortNames(S) ==
    IF S = {} THEN <<>>
    ELSE LET m == CHOOSE x \in S : \A y \in S : NameRank(x) <= NameRank(y)
         IN <<m>> \o SortNames(S \ {m})

RECURSIVE SumOver(_, _)
SumOver(f, S) ==
    IF S = {} THEN 0
    ELSE LET x == CHOOSE y \in S : TRUE IN f[x] + SumOver(f, S \ {x})

NoCounts == [n \in Names |-> [issued |-> 0, completed |-> 0]]
NoLocals == [names |-> <<>>, issued |-> 0, total_issued |-> 0,
             total_completed |-> 0, parts |-> <<>>]
NoOp == [kind |-> "none", name |-> "a", count |-> 0]

\* Value of a counter, 0 while the name has no entry in the map.
Issued(n) == IF n \in DOMAIN counters THEN counters[n].issued ELSE 0
Completed(n) == IF n \in DOMAIN counters THEN counters[n].completed ELSE 0

(***************************************************************************)
(* Progress reporter operations used by the tracker                        *)
(***************************************************************************)
\* ensure_visible storing the outcome of its test, whatever it is
ensure_visible_stores_test(hc) ==
    hc /\ delay_elapsed

\* ensure_visible, given the has_content flag the caller has just stored
ensure_visible(hc) ==
    IF ~visible /\ hc /\ delay_elapsed THEN TRUE ELSE visible

enable_determinate_mode(len) ==
    /\ is_indeterminate' = FALSE
    /\ has_content' = (IF len > 0 THEN TRUE ELSE has_content)
    /\ visible' = ensure_visible(has_content')
    /\ bar_length' = len
    /\ UNCHANGED <<bar_position, bar_message, delay_elapsed>>

set_position(pos) ==
    /\ is_indeterminate' = FALSE
    /\ visible' = ensure_visible(has_content)
    /\ bar_position' = pos
    /\ UNCHANGED <<has_content, bar_length, bar_message, delay_elapsed>>

set_message(msg) ==
    /\ has_content' = (IF msg # <<>> THEN TRUE ELSE has_content)
    /\ visible' = ensure_visible(has_content')
    /\ bar_message' = msg
    /\ UNCHANGED <<is_indeterminate, bar_length, bar_position, delay_elapsed>>

reporterVars == <<visible, has_content, is_indeterminate, delay_elapsed,
                  bar_length, bar_position, bar_message>>

\* ProgressReporter::set_prefix
set_prefix(prefix) ==
    /\ bar_prefix' = prefix
    /\ UNCHANGED reporterVars

\* ProgressReporter::enable_indeterminate_mode
enable_indeterminate_mode ==
    /\ is_indeterminate' = TRUE
    /\ has_content' = TRUE
    /\ visible' = ensure_visible(has_content')
    /\ UNCHANGED <<bar_length, bar_position, bar_message, delay_elapsed>>

\* ProgressReporter::tick_visibility
tick_visibility_idle ==
    UNCHANGED reporterVars
tick_visibility ==
    /\ visible' = (IF ~visible THEN ensure_visible(has_content) ELSE visible)
    /\ UNCHANGED <<has_content, is_indeterminate, delay_elapsed, bar_length,
                   bar_position, bar_message>>

\* ProgressReporter::force_visible
force_visible_without_content ==
    /\ visible' = TRUE
    /\ UNCHANGED <<has_content, is_indeterminate, delay_elapsed, bar_length,
                   bar_position, bar_message>>
force_visible ==
    /\ visible' = (IF ~visible /\ has_content THEN TRUE ELSE visible)
    /\ UNCHANGED <<has_content, is_indeterminate, delay_elapsed, bar_length,
                   bar_position, bar_message>>

\* ProgressReporter::finish_and_clear
finish_and_clear ==
    /\ bar_finished' = (IF visible THEN TRUE ELSE bar_finished)
    /\ UNCHANGED reporterVars

\* the call named by made the indicator visible, if this step did
Reveals(by) ==
    revealed_by' = IF visible' /\ ~visible THEN by ELSE revealed_by

IndicatorIdle ==
    /\ bar_prefix = ""
    /\ bar_finished = FALSE
    /\ ticker = "none"
    /\ revealed_by = "none"

(***************************************************************************)
(* Request tracker: operations                                             *)
(***************************************************************************)
\* The counters mutex can be taken.
LockFreeBroken(t) == TRUE
LockFree(t) == mutex = NoTask

\* counters.entry(name).or_insert_with(RequestCounter::default)
get_counter(n) ==
    IF n \in DOMAIN counters THEN counters
    ELSE [m \in DOMAIN counters \cup {n} |->
            IF m = n THEN [issued |-> 0, completed |-> 0] ELSE counters[m]]

\* counter.issued.fetch_add(count) and counter.completed.fetch_add(1)
IssuedFetchStore(cur, count) == count
IssuedFetchAdd(cur, count) == cur + count
CompletedFetchAddTwice(cur) == cur + 2
CompletedFetchAdd(cur) == cur + 1

\* format!("{completed}/{issued} {name}")
FormatPart(c, i, n) == <<c, i, n>>

\* the message "No requests"
NoRequests == <<FormatPart(0, 0, "No requests")>>

\* Completions of n that returned adds still allow.
Credit(n) == returned[n].issued - started[n].completed

BeginCall(t, kind, n, count) ==
    /\ pc[t] = "idle"
    /\ calls < MaxCalls
    /\ LockFree(t)
    /\ counters' = get_counter(n)
    /\ op' = [op EXCEPT ![t] = [kind |-> kind, name |-> n, count |-> count]]
    /\ pc' = [pc EXCEPT ![t] = "fetch_add"]
    /\ calls' = calls + 1
    /\ UNCHANGED <<mutex, loc, reporterVars, published, returned>>

add_request(t, n) ==
    /\ BeginCall(t, "add", n, 1)
    /\ started' = [started EXCEPT ![n].issued = @ + 1]
    /\ UNCHANGED uncovered

add_many_requests(t, n, count) ==
    /\ count > 0
    /\ BeginCall(t, "add", n, count)
    /\ started' = [started EXCEPT ![n].issued = @ + count]
    /\ UNCHANGED uncovered

\* add_many_requests(name, 0) returns at once and touches nothing
add_many_requests_zero(t, n) ==
    /\ pc[t] = "idle"
    /\ calls < MaxCalls
    /\ calls' = calls + 1
    /\ UNCHANGED <<counters, mutex, pc, op, loc, reporterVars, published,
                   started, returned, uncovered>>

\* complete_request by a caller that has seen a matching add return
complete_request(t, n) ==
    /\ Credit(n) > 0
    /\ BeginCall(t, "complete", n, 1)
    /\ started' = [started EXCEPT ![n].completed = @ + 1]
    /\ UNCHANGED uncovered

\* complete_request by a caller that has no matching add
complete_request_unmatched(t, n) ==
    /\ Credit(n) <= 0
    /\ BeginCall(t, "complete", n, 1)
    /\ started' = [started EXCEPT ![n].completed = @ + 1]
    /\ uncovered' = uncovered \cup {n}

fetch_add(t) ==
    /\ pc[t] = "fetch_add"
    /\ counters' =
         IF op[t].kind = "add"
         THEN [counters EXCEPT ![op[t].name].issued = IssuedFetchAdd(@, op[t].count)]
         ELSE [counters EXCEPT ![op[t].name].completed = CompletedFetchAdd(@)]
    /\ pc' = [pc EXCEPT ![t] = "lock"]
    /\ UNCHANGED <<mutex, op, loc, reporterVars, published, calls, started,
                   returned, uncovered>>

\* update_progress: take the mutex, sort the names
update_progress_lock(t) ==
    /\ pc[t] = "lock"
    /\ LockFree(t)
    /\ mutex' = t
    /\ loc' = [loc EXCEPT ![t] = [NoLocals EXCEPT !.names = SortNames(DOMAIN counters)]]
    /\ pc' = [pc EXCEPT ![t] = "load_issued"]
    /\ UNCHANGED <<counters, op, reporterVars, published, calls, started,
                   returned, uncovered>>

load_issued(t) ==
    /\ pc[t] = "load_issued"
    /\ loc[t].names # <<>>
    /\ loc' = [loc EXCEPT ![t].issued = counters[Head(loc[t].names)].issued]
    /\ pc' = [pc EXCEPT ![t] = "load_completed"]
    /\ UNCHANGED <<counters, mutex, op, reporterVars, published, calls,
                   started, returned, uncovered>>

load_completed(t) ==
    /\ pc[t] = "load_completed"
    /\ LET n == Head(loc[t].names)
           i == loc[t].issued
           c == counters[n].completed
           rest == Tail(loc[t].names)
       IN /\ loc' = [loc EXCEPT ![t] =
                       IF i > 0
                       THEN [names |-> rest, issued |-> i,
                             total_issued |-> @.total_issued + i,
                             total_completed |-> @.total_completed + c,
                             parts |-> Append(@.parts, FormatPart(c, i, n))]
                       ELSE [@ EXCEPT !.names = rest]]
          /\ pc' = [pc EXCEPT ![t] =
                       IF rest = <<>> THEN "publish_length" ELSE "load_issued"]
    /\ UNCHANGED <<counters, mutex, op, reporterVars, published, calls,
                   started, returned, uncovered>>

\* The call of task t returns: the mutex guard is dropped.
Return(t) ==
    /\ mutex' = NoTask
    /\ pc' = [pc EXCEPT ![t] = "idle"]
    /\ returned' =
         IF op[t].kind = "add"
         THEN [returned EXCEPT ![op[t].name].issued = @ + op[t].count]
         ELSE [returned EXCEPT ![op[t].name].completed = @ + op[t].count]
    /\ op' = [op EXCEPT ![t] = NoOp]
    /\ loc' = [loc EXCEPT ![t] = NoLocals]

PublishedPosition(l) == l.total_completed

publish_length(t) ==
    /\ pc[t] = "publish_length"
    /\ loc[t].total_issued > 0
    /\ enable_determinate_mode(loc[t].total_issued)
    /\ pc' = [pc EXCEPT ![t] = "publish_position"]
    /\ UNCHANGED <<counters, mutex, op, loc, published, calls, started,
                   returned, uncovered>>

\* total_issued = 0: nothing is published
publish_nothing(t) ==
    /\ pc[t] = "publish_length"
    /\ loc[t].total_issued = 0
    /\ Return(t)
    /\ UNCHANGED <<counters, reporterVars, published, calls, started, uncovered>>

publish_position(t) ==
    /\ pc[t] = "publish_position"
    /\ set_position(PublishedPosition(loc[t]))
    /\ pc' = [pc EXCEPT ![t] = "publish_message"]
    /\ UNCHANGED <<counters, mutex, op, loc, published, calls, started,
                   returned, uncovered>>

publish_message(t) ==
    /\ pc[t] = "publish_message"
    /\ set_message(IF loc[t].parts = <<>> THEN NoRequests ELSE loc[t].parts)
    /\ published' = TRUE
    /\ Return(t)
    /\ UNCHANGED <<counters, calls, started, uncovered>>

\* the delay of the reporter runs out
delay_elapses ==
    /\ ~delay_elapsed
    /\ delay_elapsed' = TRUE
    /\ UNCHANGED <<counters, mutex, pc, op, loc, visible, has_content,
                   is_indeterminate, bar_length, bar_position, bar_message,
                   published, calls, started, returned, uncovered>>

(***************************************************************************)
(* Advisory scan                                                           *)
(***************************************************************************)
CrateNames == {"x", "y"}
Versions == {1, 2}
CrateSpecs == [name : CrateNames, version : Versions]

Informationals == {"none", "notice", "unmaintained", "unsound", "other"}
Severities == {"absent", "None", "Low", "Medium", "High", "Critical"}
\* an advisory: its package, its informational kind ("none" for a
\* vulnerability), the severity of its CVSS ("absent" without one) and the
\* versions its version ranges hold vulnerable
Advisories ==
    {a \in [package : CrateNames, informational : Informationals,
            cvss : Severities, vulnerable : {{}, {1}}] :
        a.informational # "none" => a.cvss = "absent"}

\* AdvisoryData::default()
AdvisoryDataDefault ==
    [vulnerability_count |-> 0, low_vulnerability_count |-> 0,
     medium_vulnerability_count |-> 0, high_vulnerability_count |-> 0,
     critical_vulnerability_count |-> 0, warning_count |-> 0,
     notice_warning_count |-> 0, unmaintained_warning_count |-> 0,
     unsound_warning_count |-> 0, yanked_warning_count |-> 0,
     historical_vulnerability_count |-> 0,
     historical_low_vulnerability_count |-> 0,
     historical_medium_vulnerability_count |-> 0,
     historical_high_vulnerability_count |-> 0,
     historical_critical_vulnerability_count |-> 0,
     historical_warning_count |-> 0,
     historical_notice_warning_count |-> 0,
     historical_unmaintained_warning_count |-> 0,
     historical_unsound_warning_count |-> 0,
     historical_yanked_warning_count |-> 0]

\* apply_advisory_counts on the historical counters (hist) or on the
\* version-specific ones
apply_advisory_counts(data, advisory, hist) ==
    LET W == IF hist THEN "historical_warning_count" ELSE "warning_count"
        WN == IF hist THEN "historical_notice_warning_count" ELSE "notice_warning_count"
        WM == IF hist THEN "historical_unmaintained_warning_count" ELSE "unmaintained_warning_count"
        WS == IF hist THEN "historical_unsound_warning_count" ELSE "unsound_warning_count"
        V == IF hist THEN "historical_vulnerability_count" ELSE "vulnerability_count"
        VL == IF hist THEN "historical_low_vulnerability_count" ELSE "low_vulnerability_count"
        VM == IF hist THEN "historical_medium_vulnerability_count" ELSE "medium_vulnerability_count"
        VH == IF hist THEN "historical_high_vulnerability_count" ELSE "high_vulnerability_count"
        VC == IF hist THEN "historical_critical_vulnerability_count" ELSE "critical_vulnerability_count"
        Inc(d, f) == [d EXCEPT ![f] = @ + 1]
    IN IF advisory.informational # "none"
       THEN LET d1 == Inc(data, W)
            IN CASE advisory.informational = "notice" -> Inc(d1, WN)
                 [] advisory.informational = "unmaintained" -> Inc(d1, WM)
                 [] advisory.informational = "unsound" -> Inc(d1, WS)
                 [] OTHER -> d1
       ELSE LET d1 == Inc(data, V)
            IN CASE advisory.cvss = "Low" -> Inc(d1, VL)
                 [] advisory.cvss = "Medium" -> Inc(d1, VM)
                 [] advisory.cvss = "High" -> Inc(d1, VH)
                 [] advisory.cvss = "Critical" -> Inc(d1, VC)
                 [] OTHER -> d1

count_advisory_historical(data, advisory) ==
    apply_advisory_counts(data, advisory, TRUE)

count_advisory_for_version(data, advisory) ==
    apply_advisory_counts(data, advisory, FALSE)

\* advisory.versions.is_vulnerable(version)
is_vulnerable(advisory, version) == version \in advisory.vulnerable

\* crate_map.entry(name).or_default().push(pair)
PushEntryReplacing(map, name, pair) ==
    [m \in DOMAIN map \cup {name} |-> IF m = name THEN <<pair>> ELSE map[m]]
PushEntry(map, name, pair) ==
    [m \in DOMAIN map \cup {name} |->
        IF m = name
        THEN (IF name \in DOMAIN map THEN Append(map[name], pair) ELSE <<pair>>)
        ELSE map[m]]

\* the body of the loop over crate_entries without the historical count
ScanEntry_for_version_only(entry, advisory) ==
    [entry EXCEPT !.result.data = count_advisory_for_version(@, advisory)]

\* the body of the loop over crate_entries
ScanEntry(entry, advisory) ==
    LET d1 == count_advisory_historical(entry.result.data, advisory)
        d2 == IF is_vulnerable(advisory, entry.spec.version)
              THEN count_advisory_for_version(d1, advisory) ELSE d1
    IN [entry EXCEPT !.result.data = d2]

\* scan_advisories is called
scan_start(input) ==
    /\ scan_pc = "idle"
    /\ crates' = input
    /\ crates_left' = input
    /\ crate_map' = <<>>
    /\ advisories_checked' = 0
    /\ scan_output' = <<>>
    /\ scan_pc' = "group"

\* one turn of the loop over crates
scan_group ==
    /\ scan_pc = "group"
    /\ crates_left # <<>>
    /\ LET crate_spec == Head(crates_left)
       IN crate_map' = PushEntry(crate_map, crate_spec.name,
              [spec |-> crate_spec,
               result |-> [tag |-> "Found", data |-> AdvisoryDataDefault]])
    /\ crates_left' = Tail(crates_left)
    /\ UNCHANGED <<scan_pc, crates, advisories_checked, scan_output>>

scan_grouped ==
    /\ scan_pc = "group"
    /\ crates_left = <<>>
    /\ scan_pc' = "scan"
    /\ UNCHANGED <<crates, crates_left, crate_map, advisories_checked, scan_output>>

\* one turn of the loop over database.iter()
scan_advisory(advisory) ==
    /\ scan_pc = "scan"
    /\ advisories_checked < MaxAdvisories
    /\ advisories_checked' = advisories_checked + 1
    /\ crate_map' =
         IF advisory.package \in DOMAIN crate_map
         THEN [crate_map EXCEPT ![advisory.package] =
                 [k \in 1..Len(@) |-> ScanEntry(@[k], advisory)]]
         ELSE crate_map
    /\ UNCHANGED <<scan_pc, crates, crates_left, scan_output>>

\* the database iterator is exhausted
scan_scanned ==
    /\ scan_pc = "scan"
    /\ scan_pc' = "emit"
    /\ UNCHANGED <<crates, crates_left, crate_map, advisories_checked, scan_output>>

\* crate_map.into_values().flatten(): the values come in the map's order
scan_emit(name) ==
    /\ scan_pc = "emit"
    /\ name \in DOMAIN crate_map
    /\ scan_output' = scan_output \o crate_map[name]
    /\ crate_map' = [m \in DOMAIN crate_map \ {name} |-> crate_map[m]]
    /\ UNCHANGED <<scan_pc, crates, crates_left, advisories_checked>>

scan_done ==
    /\ scan_pc = "emit"
    /\ DOMAIN crate_map = {}
    /\ scan_pc' = "done"
    /\ UNCHANGED <<crates, crates_left, crate_map, advisories_checked, scan_output>>

RECURSIVE SeqsUpTo(_, _)
SeqsUpTo(S, n) ==
    IF n = 0 THEN {<<>>}
    ELSE LET shorter == SeqsUpTo(S, n - 1)
         IN shorter \cup {Append(q, x) : q \in shorter, x \in S}


(***************************************************************************)
(* States in which a component is not in use                               *)
(***************************************************************************)
ScanIdle ==
    /\ scan_pc = "off"
    /\ crates = <<>>
    /\ crates_left = <<>>
    /\ crate_map = <<>>
    /\ advisories_checked = 0
    /\ scan_output = <<>>

TrackerIdle ==
    /\ counters = <<>>
    /\ mutex = NoTask
    /\ pc = [t \in Tasks |-> "idle"]
    /\ op = [t \in Tasks |-> NoOp]
    /\ loc = [t \in Tasks |-> NoLocals]
    /\ visible = FALSE
    /\ has_content = FALSE
    /\ is_indeterminate = FALSE
    /\ delay_elapsed = FALSE
    /\ bar_length = 0
    /\ bar_position = 0
    /\ bar_message = <<>>
    /\ published = FALSE
    /\ calls = 0
    /\ started = NoCounts
    /\ returned = NoCounts
    /\ uncovered = {}


(***************************************************************************)
(* Metric catalog                                                          *)
(***************************************************************************)
\* calculate without its last call
CalcOrderMissingCall ==
    <<"License", "Age", "MinVersion", "ReleaseCount", "OverallDownloadCount",
      "OneMonthDownloadCount", "OverallOwnerCount", "TeamOwnerCount",
      "UserOwnerCount", "DirectDependencyCount", "DependentCount",
      "DocCoveragePercentage", "BrokenDocLinkCount", "CodeCoveragePercentage",
      "FullySafeCode", "TransitiveDependencyCount", "ExampleCount",
      "RepoContributorCount", "RepoStarCount", "RepoForkCount",
      "RepoSubscriberCount", "CommitActivity", "OpenIssueCount",
      "ClosedIssueCount", "IssueResponsiveness", "OpenPullRequestCount",
      "ClosedPullRequestCount", "PullRequestResponsiveness",
      "VulnerabilityCount", "LowVulnerabilityCount",
      "MediumVulnerabilityCount", "HighVulnerabilityCount",
      "CriticalVulnerabilityCount", "WarningCount", "NoticeWarningCount",
      "UnmaintainedWarningCount", "UnsoundWarningCount", "YankedWarningCount",
      "HistoricalVulnerabilityCount", "HistoricalLowVulnerabilityCount",
      "HistoricalMediumVulnerabilityCount", "HistoricalHighVulnerabilityCount",
      "HistoricalCriticalVulnerabilityCount", "HistoricalWarningCount",
      "HistoricalNoticeWarningCount", "HistoricalUnmaintainedWarningCount",
      "HistoricalUnsoundWarningCount">>

\* the calls of calculate, in order, by the metric each one evaluates
CalcOrder ==
    <<"License", "Age", "MinVersion", "ReleaseCount", "OverallDownloadCount",
      "OneMonthDownloadCount", "OverallOwnerCount", "TeamOwnerCount",
      "UserOwnerCount", "DirectDependencyCount", "DependentCount",
      "DocCoveragePercentage", "BrokenDocLinkCount", "CodeCoveragePercentage",
      "FullySafeCode", "TransitiveDependencyCount", "ExampleCount",
      "RepoContributorCount", "RepoStarCount", "RepoForkCount",
      "RepoSubscriberCount", "CommitActivity", "OpenIssueCount",
      "ClosedIssueCount", "IssueResponsiveness", "OpenPullRequestCount",
      "ClosedPullRequestCount", "PullRequestResponsiveness",
      "VulnerabilityCount", "LowVulnerabilityCount",
      "MediumVulnerabilityCount", "HighVulnerabilityCount",
      "CriticalVulnerabilityCount", "WarningCount", "NoticeWarningCount",
      "UnmaintainedWarningCount", "UnsoundWarningCount", "YankedWarningCount",
      "HistoricalVulnerabilityCount", "HistoricalLowVulnerabilityCount",
      "HistoricalMediumVulnerabilityCount", "HistoricalHighVulnerabilityCount",
      "HistoricalCriticalVulnerabilityCount", "HistoricalWarningCount",
      "HistoricalNoticeWarningCount", "HistoricalUnmaintainedWarningCount",
      "HistoricalUnsoundWarningCount", "HistoricalYankedWarningCount">>

\* enum Metric
Metric ==
    {"License", "Age", "MinVersion", "ReleaseCount",
     "OverallDownloadCount", "OneMonthDownloadCount",
     "OverallOwnerCount", "UserOwnerCount", "TeamOwnerCount",
     "DependentCount", "DirectDependencyCount", "TransitiveDependencyCount",
     "DocCoveragePercentage", "BrokenDocLinkCount", "CodeCoveragePercentage",
     "FullySafeCode", "ExampleCount",
     "RepoStarCount", "RepoForkCount", "RepoSubscriberCount",
     "RepoContributorCount", "CommitActivity",
     "OpenIssueCount", "ClosedIssueCount", "IssueResponsiveness",
     "OpenPullRequestCount", "ClosedPullRequestCount",
     "PullRequestResponsiveness",
     "VulnerabilityCount", "LowVulnerabilityCount", "MediumVulnerabilityCount",
     "HighVulnerabilityCount", "CriticalVulnerabilityCount", "WarningCount",
     "NoticeWarningCount", "UnmaintainedWarningCount", "UnsoundWarningCount",
     "YankedWarningCount",
     "HistoricalVulnerabilityCount", "HistoricalLowVulnerabilityCount",
     "HistoricalMediumVulnerabilityCount", "HistoricalHighVulnerabilityCount",
     "HistoricalCriticalVulnerabilityCount", "HistoricalWarningCount",
     "HistoricalNoticeWarningCount", "HistoricalUnmaintainedWarningCount",
     "HistoricalUnsoundWarningCount", "HistoricalYankedWarningCount"}

AdvisoryMetrics ==
    {"VulnerabilityCount", "LowVulnerabilityCount", "MediumVulnerabilityCount",
     "HighVulnerabilityCount", "CriticalVulnerabilityCount", "WarningCount",
     "NoticeWarningCount", "UnmaintainedWarningCount", "UnsoundWarningCount",
     "YankedWarningCount",
     "HistoricalVulnerabilityCount", "HistoricalLowVulnerabilityCount",
     "HistoricalMediumVulnerabilityCount", "HistoricalHighVulnerabilityCount",
     "HistoricalCriticalVulnerabilityCount", "HistoricalWarningCount",
     "HistoricalNoticeWarningCount", "HistoricalUnmaintainedWarningCount",
     "HistoricalUnsoundWarningCount", "HistoricalYankedWarningCount"}

\* Metric::category
MetricCategories ==
  [m \in Metric |->
    CASE m \in {"Age", "MinVersion", "ReleaseCount"} -> "Stability"
      [] m \in {"OverallDownloadCount", "OneMonthDownloadCount", "DependentCount"} -> "Usage"
      [] m \in {"RepoStarCount", "RepoForkCount", "RepoSubscriberCount",
                "RepoContributorCount"} -> "Community"
      [] m \in {"CommitActivity", "OpenIssueCount", "ClosedIssueCount",
                "IssueResponsiveness", "OpenPullRequestCount",
                "ClosedPullRequestCount", "PullRequestResponsiveness"} -> "Activity"
      [] m \in {"DocCoveragePercentage", "BrokenDocLinkCount", "ExampleCount"} -> "Documentation"
      [] m \in {"OverallOwnerCount", "UserOwnerCount", "TeamOwnerCount", "License"} -> "Ownership"
      [] m \in {"CodeCoveragePercentage", "FullySafeCode"} -> "Trustworthiness"
      [] m \in {"TransitiveDependencyCount", "DirectDependencyCount"} -> "Cost"
      [] m \in AdvisoryMetrics -> "Advisories"]
category(m) == MetricCategories[m]

\* the CrateFacts field the function of a metric reads
FactsFields ==
  [m \in Metric |->
    CASE m \in {"License", "MinVersion", "ReleaseCount"} -> "crate_version_data"
      [] m \in {"Age", "OverallDownloadCount", "OneMonthDownloadCount",
                "OverallOwnerCount", "TeamOwnerCount", "UserOwnerCount",
                "DependentCount"} -> "crate_overall_data"
      [] m \in {"DocCoveragePercentage", "BrokenDocLinkCount"} -> "docs_data"
      [] m = "CodeCoveragePercentage" -> "coverage_data"
      [] m \in {"FullySafeCode", "TransitiveDependencyCount", "ExampleCount"} -> "codebase_data"
      [] m \in {"RepoContributorCount", "RepoStarCount", "RepoForkCount",
                "RepoSubscriberCount", "CommitActivity", "OpenIssueCount",
                "ClosedIssueCount", "IssueResponsiveness",
                "OpenPullRequestCount", "ClosedPullRequestCount",
                "PullRequestResponsiveness"} -> "hosting_data"
      [] m \in AdvisoryMetrics -> "advisory_data"
      [] m = "DirectDependencyCount" -> "none"]
FactsField(m) == FactsFields[m]

\* the shape of the function of a metric: which policy type it reads and
\* how its predicate compares
MetricKinds ==
  [m \in Metric |->
    CASE m = "License" -> "license"
      [] m = "Age" -> "age"
      [] m = "MinVersion" -> "version"
      [] m = "ReleaseCount" -> "release"
      [] m = "CommitActivity" -> "commit"
      [] m = "FullySafeCode" -> "boolean"
      [] m \in {"DocCoveragePercentage", "CodeCoveragePercentage"} -> "percentage"
      [] m \in {"IssueResponsiveness", "PullRequestResponsiveness"} -> "responsiveness"
      [] m = "DirectDependencyCount" -> "disabled"
      [] m \in {"BrokenDocLinkCount", "TransitiveDependencyCount",
                "OpenIssueCount", "OpenPullRequestCount"} \cup AdvisoryMetrics -> "max"
      [] OTHER -> "min"]
MetricKind(m) == MetricKinds[m]

DependencyType == {"Standard", "Dev", "Build"}
ProviderFields == {"crate_version_data", "crate_overall_data", "hosting_data",
                   "advisory_data", "codebase_data", "coverage_data", "docs_data"}

(***************************************************************************)
(* License policy                                                          *)
(***************************************************************************)
\* str::to_lowercase on the license names of the model
to_lowercase(s) ==
    CASE s = "MIT" -> "mit"
      [] s = "GPL-3.0-only" -> "gpl-3.0-only"
      [] s = "GPL" -> "gpl"
      [] s = "MIT AND GPL-3.0-only" -> "mit and gpl-3.0-only"
      [] s = "MIT OR GPL-3.0-only" -> "mit or gpl-3.0-only"
      [] s = "Proprietary MIT-like" -> "proprietary mit-like"
      [] s = "ERROR: Repository Not Found." -> "error: repository not found."
      [] s = "remote: The project DOES NOT EXIST" -> "remote: the project does not exist"
      [] s = "fatal: Authentication failed" -> "fatal: authentication failed"
      [] OTHER -> s

\* str::contains on the lowercase license names of the model
contains(haystack, needle) ==
    \/ haystack = needle
    \/ <<haystack, needle>> \in
         {<<"gpl-3.0-only", "gpl">>,
          <<"mit and gpl-3.0-only", "mit">>, <<"mit and gpl-3.0-only", "gpl">>,
          <<"mit and gpl-3.0-only", "gpl-3.0-only">>,
          <<"mit or gpl-3.0-only", "mit">>, <<"mit or gpl-3.0-only", "gpl">>,
          <<"mit or gpl-3.0-only", "gpl-3.0-only">>,
          <<"proprietary mit-like", "mit">>,
          <<"fatal: repository not found", "not found">>,
          <<"error: repository not found.", "not found">>,
          <<"fatal: remote branch does not exist", "does not exist">>,
          <<"remote: the project does not exist", "does not exist">>}

\* spdx::Expression::parse: the requirements of the expression, the operators
\* the parser found between them, and has_and, whether the text of the
\* expression (its Display form is the text it was parsed from) holds " AND ";
\* ok is FALSE when the text does not parse.  The lexer skips whitespace and
\* reads a parenthesis as a token of its own, so an operator need not stand
\* between two spaces.
spdx_parse(text) ==
    CASE text = "MIT" ->
           [ok |-> TRUE, requirements |-> <<"MIT">>, operators |-> {},
            has_and |-> FALSE]
      [] text = "MIT AND GPL-3.0-only" ->
           [ok |-> TRUE, requirements |-> <<"MIT", "GPL-3.0-only">>,
            operators |-> {"AND"}, has_and |-> TRUE]
      [] text = "(MIT)AND(GPL-3.0-only)" ->
           [ok |-> TRUE, requirements |-> <<"MIT", "GPL-3.0-only">>,
            operators |-> {"AND"}, has_and |-> FALSE]
      [] text = "MIT OR GPL-3.0-only" ->
           [ok |-> TRUE, requirements |-> <<"MIT", "GPL-3.0-only">>,
            operators |-> {"OR"}, has_and |-> FALSE]
      [] text = "MIT OR LicenseRef-Custom" ->
           [ok |-> TRUE, requirements |-> <<"MIT", "LicenseRef-Custom">>,
            operators |-> {"OR"}, has_and |-> FALSE]
      [] OTHER ->
           [ok |-> FALSE, requirements |-> <<>>, operators |-> {},
            has_and |-> FALSE]

\* req.req.license.id(): the name of a known SPDX identifier, "none" otherwise
license_id(req) == IF req = "LicenseRef-Custom" THEN "none" ELSE req

\* LicensePolicy::evaluate_spdx_expression
evaluate_spdx_expression(expr, allowed_licenses) ==
    LET is_allowed(req) ==
            /\ license_id(req) # "none"
            /\ \E allowed \in allowed_licenses :
                  \/ contains(to_lowercase(license_id(req)), to_lowercase(allowed))
                  \/ contains(to_lowercase(allowed), to_lowercase(license_id(req)))
        n == Len(expr.requirements)
        has_allowed == \E k \in 1..n : is_allowed(expr.requirements[k])
        has_disallowed == \E k \in 1..n : ~is_allowed(expr.requirements[k])
    IN IF n = 0 THEN FALSE
       ELSE IF expr.has_and THEN ~has_disallowed /\ has_allowed
       ELSE has_allowed

\* LicensePolicy::check_license
check_license(p, spdx_license_expr) ==
    LET expression == spdx_parse(spdx_license_expr)
    IN IF ~expression.ok
       THEN \E allowed \in p.licenses :
                contains(to_lowercase(spdx_license_expr), to_lowercase(allowed))
       ELSE evaluate_spdx_expression(expression, p.licenses)

(***************************************************************************)
(* Metric calculator                                                       *)
(***************************************************************************)
\* a message: its fixed text, the observed value it shows (-1 if none) and
\* the bound it cites as "need <cites> <need>" ("" and -1 if none)
Msg(text, observed, cites, need) ==
    [text |-> text, observed |-> observed, cites |-> cites, need |-> need]

\* PolicyOutcome::Match(points, info) and PolicyOutcome::NoMatch(reason)
Match(points, info) == [tag |-> "Match", points |-> points, text |-> info]
NoMatch(reason) == [tag |-> "NoMatch", points |-> 0, text |-> reason]

\* 1.0 in the unit of the scale factors (tenths)
ScaleOne == 10

\* MetricCalculator::scale_points; the result is in tenths of a point
scale_points(config, metric, points) ==
    points * (IF metric \in DOMAIN config.metric_scaling
              THEN config.metric_scaling[metric] ELSE ScaleOne)

\* policy.dependency_types().contains(self.dependency_type)
applies(policy, dependency_type) == dependency_type \in policy.dependency_types

Min(S) == CHOOSE x \in S : \A y \in S : x <= y
Max(S) == CHOOSE x \in S : \A y \in S : x >= y

\* the loop of apply_generic_policy over policies[i..]: the index of the
\* policy that matched (0 if none did) and the value of num_policies
RECURSIVE generic_loop_last(_, _, _, _, _)
generic_loop_last(policies, holds, dependency_type, i, found) ==
    IF i > Len(policies) THEN [matched |-> found, num_policies |-> Len(policies)]
    ELSE IF applies(policies[i], dependency_type) /\ holds[i]
         THEN generic_loop_last(policies, holds, dependency_type, i + 1, i)
         ELSE generic_loop_last(policies, holds, dependency_type, i + 1, found)

RECURSIVE generic_loop(_, _, _, _, _)
generic_loop(policies, holds, dependency_type, i, num_policies) ==
    IF i > Len(policies) THEN [matched |-> 0, num_policies |-> num_policies]
    ELSE IF ~applies(policies[i], dependency_type)
         THEN generic_loop(policies, holds, dependency_type, i + 1, num_policies)
         ELSE IF holds[i]
              THEN [matched |-> i, num_policies |-> num_policies + 1]
              ELSE generic_loop(policies, holds, dependency_type, i + 1,
                                num_policies + 1)

NoPolicyDefined == Msg("no policy defined", -1, "", -1)

\* MetricCalculator::apply_generic_policy; holds[i] is predicate(policies[i]),
\* success[i] is success_msg_fn(policies[i]), failure is failure_msg_fn()
apply_generic_policy(c, metric, policies, holds, success, failure) ==
    LET r == generic_loop(policies, holds, c.dependency_type, 1, 0)
    IN IF r.matched # 0
       THEN Match(scale_points(c.config, metric, policies[r.matched].points),
                  success[r.matched])
       ELSE IF r.num_policies = 0 THEN NoMatch(NoPolicyDefined)
       ELSE NoMatch(failure)

\* the test of apply_responsiveness_policy
responsive(stats, policy) ==
    /\ stats.avg <= policy.max_average_days
    /\ stats.p50 <= policy.max_p50_days
    /\ stats.p75 <= policy.max_p75_days
    /\ stats.p90 <= policy.max_p90_days
    /\ stats.p95 <= policy.max_p95_days

\* MetricCalculator::apply_responsiveness_policy
apply_responsiveness_policy(c, metric, policies, stats) ==
    LET holds == [i \in 1..Len(policies) |-> responsive(stats, policies[i])]
        r == generic_loop(policies, holds, c.dependency_type, 1, 0)
    IN IF r.matched # 0
       THEN Match(scale_points(c.config, metric, policies[r.matched].points),
                  Msg("sufficiently responsive", -1, "", -1))
       ELSE NoMatch(Msg("insufficiently responsive", -1, "", -1))

IsFound(result) == result.tag = "Found"

\* the bounds of the policies that apply to the dependency type
Bounds(c, policies, field) ==
    {policies[i][field] : i \in {j \in 1..Len(policies) :
                                    applies(policies[j], c.dependency_type)}}
MinBound(c, policies, field) ==
    IF Bounds(c, policies, field) = {} THEN 0 ELSE Min(Bounds(c, policies, field))
\* MetricCalculator::get_max_count
get_max_count(c, policies) ==
    IF Bounds(c, policies, "max_count") = {} THEN 0
    ELSE Max(Bounds(c, policies, "max_count"))

\* Utc::now()
UtcNow == now

\* count_releases_in_period: the releases created at or after the cutoff,
\* which is days before the current time
count_releases_in_period(version_data, days) ==
    LET cutoff == UtcNow - days
    IN IF version_data.created_at >= cutoff THEN 1 ELSE 0

\* age_days of MetricCalculator::age: the whole days from created_at to the
\* current time, at least 0
age_days(overall_data) == Max({UtcNow - overall_data.created_at, 0})

\* MetricCalculator::get_owner_count
get_owner_count(overall_data, kind) ==
    Cardinality({k \in 1..Len(overall_data.owners) : overall_data.owners[k] = kind})

\* the value a metric of a plain count or percentage observes in its payload
Observed(facts, m) ==
    LET registry == facts.crate_overall_data.data
        hosting == facts.hosting_data.data
        codebase == facts.codebase_data.data
        docs == facts.docs_data.data.state.metrics
        advisory == facts.advisory_data.data
    IN CASE m = "Age" -> age_days(registry)
         [] m = "MinVersion" -> facts.crate_version_data.data.version_major
         [] m = "OverallDownloadCount" -> registry.downloads
         [] m = "OneMonthDownloadCount" ->
              IF registry.monthly_downloads = <<>> THEN 0
              ELSE registry.monthly_downloads[Len(registry.monthly_downloads)]
         [] m = "OverallOwnerCount" -> Len(registry.owners)
         [] m = "TeamOwnerCount" -> get_owner_count(registry, "Team")
         [] m = "UserOwnerCount" -> get_owner_count(registry, "User")
         [] m = "DependentCount" -> registry.dependents
         [] m = "DocCoveragePercentage" -> docs.doc_coverage_percentage
         [] m = "BrokenDocLinkCount" -> docs.broken_doc_links
         [] m = "CodeCoveragePercentage" -> facts.coverage_data.data.code_coverage_percentage
         [] m = "TransitiveDependencyCount" -> codebase.transitive_dependencies
         [] m = "ExampleCount" -> codebase.example_count
         [] m = "RepoContributorCount" -> hosting.contributors
         [] m = "RepoStarCount" -> hosting.stars
         [] m = "RepoForkCount" -> hosting.forks
         [] m = "RepoSubscriberCount" -> hosting.subscribers
         [] m = "CommitActivity" -> hosting.commits_last_3_months
         [] m = "OpenIssueCount" -> hosting.issues.open_count
         [] m = "ClosedIssueCount" -> hosting.issues.closed_count
         [] m = "OpenPullRequestCount" -> hosting.pulls.open_count
         [] m = "ClosedPullRequestCount" -> hosting.pulls.closed_count
         [] m = "VulnerabilityCount" -> advisory.vulnerability_count
         [] m = "LowVulnerabilityCount" -> advisory.low_vulnerability_count
         [] m = "MediumVulnerabilityCount" -> advisory.medium_vulnerability_count
         [] m = "HighVulnerabilityCount" -> advisory.high_vulnerability_count
         [] m = "CriticalVulnerabilityCount" -> advisory.critical_vulnerability_count
         [] m = "WarningCount" -> advisory.warning_count
         [] m = "NoticeWarningCount" -> advisory.notice_warning_count
         [] m = "UnmaintainedWarningCount" -> advisory.unmaintained_warning_count
         [] m = "UnsoundWarningCount" -> advisory.unsound_warning_count
         [] m = "YankedWarningCount" -> advisory.yanked_warning_count
         [] m = "HistoricalVulnerabilityCount" -> advisory.historical_vulnerability_count
         [] m = "HistoricalLowVulnerabilityCount" -> advisory.historical_low_vulnerability_count
         [] m = "HistoricalMediumVulnerabilityCount" -> advisory.historical_medium_vulnerability_count
         [] m = "HistoricalHighVulnerabilityCount" -> advisory.historical_high_vulnerability_count
         [] m = "HistoricalCriticalVulnerabilityCount" -> advisory.historical_critical_vulnerability_count
         [] m = "HistoricalWarningCount" -> advisory.historical_warning_count
         [] m = "HistoricalNoticeWarningCount" -> advisory.historical_notice_warning_count
         [] m = "HistoricalUnmaintainedWarningCount" -> advisory.historical_unmaintained_warning_count
         [] m = "HistoricalUnsoundWarningCount" -> advisory.historical_unsound_warning_count
         [] m = "HistoricalYankedWarningCount" -> advisory.historical_yanked_warning_count

\* the functions of the metrics that compare a count with min_count,
\* min_days, min_major_version or min_percentage
min_metric(c, m, field) ==
    LET policies == c.config.policies[m]
        value == Observed(c.facts, m)
        need == MinBound(c, policies, field)
    IN apply_generic_policy(c, m, policies,
           [i \in 1..Len(policies) |-> value >= policies[i][field]],
           [i \in 1..Len(policies) |-> Msg(m, value, "", -1)],
           Msg(m, value, ">=", need))

\* the functions of the metrics that compare a count with max_count
max_metric(c, m) ==
    LET policies == c.config.policies[m]
        value == Observed(c.facts, m)
        need == get_max_count(c, policies)
    IN apply_generic_policy(c, m, policies,
           [i \in 1..Len(policies) |-> value <= policies[i].max_count],
           [i \in 1..Len(policies) |-> Msg(m, value, "", -1)],
           Msg(m, value, IF m \in AdvisoryMetrics THEN "<=" ELSE "<", need))

\* the predicate MetricCalculator::license hands to apply_generic_policy
license_is_some_and(p, lic) == lic # "None" /\ check_license(p, lic)

\* MetricCalculator::license
license(c) ==
    LET policies == c.config.policies["License"]
        lic == c.facts.crate_version_data.data.license
    IN apply_generic_policy(c, "License", policies,
           [i \in 1..Len(policies) |->
               license_is_some_and(policies[i], lic)],
           [i \in 1..Len(policies) |-> Msg(lic, -1, "", -1)],
           Msg("not a supported license type", -1, "", -1))

\* MetricCalculator::release_count, for version data that is Found
release_count(c) ==
    LET policies == c.config.policies["ReleaseCount"]
        data == c.facts.crate_version_data.data
    IN apply_generic_policy(c, "ReleaseCount", policies,
           [i \in 1..Len(policies) |->
               count_releases_in_period(data, policies[i].max_days)
                   >= policies[i].min_count],
           [i \in 1..Len(policies) |->
               Msg("releases in days",
                   count_releases_in_period(data, policies[i].max_days),
                   "", policies[i].max_days)],
           Msg("insufficient recent releases", -1, "", -1))

SUPPORTED_DAYS == 90

\* MetricCalculator::commit_activity with a predicate that does not look at
\* max_days
commit_activity_any_window(c) ==
    LET policies == c.config.policies["CommitActivity"]
        commits == c.facts.hosting_data.data.commits_last_3_months
        supported == {policies[i].min_count :
                         i \in {j \in 1..Len(policies) :
                                  /\ applies(policies[j], c.dependency_type)
                                  /\ policies[j].max_days = SUPPORTED_DAYS}}
        min_commits == IF supported = {} THEN 0 ELSE Min(supported)
    IN apply_generic_policy(c, "CommitActivity", policies,
           [i \in 1..Len(policies) |-> commits >= policies[i].min_count],
           [i \in 1..Len(policies) |->
               Msg("commits in last days", commits, "", policies[i].max_days)],
           Msg("commits in last 90 days", commits, ">=", min_commits))

\* MetricCalculator::commit_activity
commit_activity(c) ==
    LET policies == c.config.policies["CommitActivity"]
        commits == c.facts.hosting_data.data.commits_last_3_months
        supported == {policies[i].min_count :
                         i \in {j \in 1..Len(policies) :
                                  /\ applies(policies[j], c.dependency_type)
                                  /\ policies[j].max_days = SUPPORTED_DAYS}}
        min_commits == IF supported = {} THEN 0 ELSE Min(supported)
    IN apply_generic_policy(c, "CommitActivity", policies,
           [i \in 1..Len(policies) |->
               IF policies[i].max_days # SUPPORTED_DAYS THEN FALSE
               ELSE commits >= policies[i].min_count],
           [i \in 1..Len(policies) |->
               Msg("commits in last days", commits, "", policies[i].max_days)],
           Msg("commits in last 90 days", commits, ">=", min_commits))

\* MetricCalculator::fully_safe_code
fully_safe_code(c) ==
    LET policies == c.config.policies["FullySafeCode"]
        has_unsafe == c.facts.codebase_data.data.unsafe_count > 0
    IN apply_generic_policy(c, "FullySafeCode", policies,
           [i \in 1..Len(policies) |-> ~has_unsafe],
           [i \in 1..Len(policies) |-> Msg("crate contains no unsafe codebase", -1, "", -1)],
           Msg("crate contains unsafe codebase", -1, "", -1))

\* The function of metric m returns early: the payload it reads is not
\* Found, or the docs payload is of an unknown format version. The functions
\* of the registry metrics have no early return.
ReturnsEarly(c, m) ==
    /\ FactsField(m) \notin {"crate_version_data", "crate_overall_data"}
    /\ \/ ~IsFound(c.facts[FactsField(m)])
       \/ /\ FactsField(m) = "docs_data"
          /\ c.facts.docs_data.data.state.tag # "Found"

\* The function of metric m reaches unreachable!(): a registry payload it
\* destructures is not Found. release_count destructures only inside its
\* predicate, that is when a policy applies to the dependency type.
Unreachable(c, m) ==
    /\ FactsField(m) \in {"crate_version_data", "crate_overall_data"}
    /\ ~IsFound(c.facts[FactsField(m)])
    /\ m = "ReleaseCount" =>
         \E i \in 1..Len(c.config.policies[m]) :
             applies(c.config.policies[m][i], c.dependency_type)

\* the outcome the function of metric m inserts, its data being available
Evaluate(c, m) ==
    CASE MetricKind(m) = "license" -> license(c)
      [] MetricKind(m) = "age" -> min_metric(c, m, "min_days")
      [] MetricKind(m) = "version" -> min_metric(c, m, "min_major_version")
      [] MetricKind(m) = "release" -> release_count(c)
      [] MetricKind(m) = "commit" -> commit_activity(c)
      [] MetricKind(m) = "boolean" -> fully_safe_code(c)
      [] MetricKind(m) = "percentage" -> min_metric(c, m, "min_percentage")
      [] MetricKind(m) = "min" -> min_metric(c, m, "min_count")
      [] MetricKind(m) = "max" -> max_metric(c, m)
      [] MetricKind(m) = "responsiveness" ->
           apply_responsiveness_policy(c, m, c.config.policies[m],
               IF m = "IssueResponsiveness"
               THEN c.facts.hosting_data.data.issues.closed_age
               ELSE c.facts.hosting_data.data.pulls.closed_age)

\* The k-th call of calculate inserts an outcome: it is not the disabled
\* direct_dependency_count and does not return early.
Inserts(c, k) ==
    /\ MetricKind(CalcOrder[k]) # "disabled"
    /\ ~ReturnsEarly(c, CalcOrder[k])

\* calculate: its calls run in order, each inserting the outcome of its own
\* metric, up to the first call that panics; the results map it leaves, and
\* whether it panicked
calculate_calls(c) ==
    LET panics == {k \in 1..Len(CalcOrder) : Unreachable(c, CalcOrder[k])}
        stop == IF panics = {} THEN Len(CalcOrder) + 1 ELSE Min(panics)
        inserted == {CalcOrder[k] : k \in {j \in 1..(stop - 1) : Inserts(c, j)}}
    IN [panicked |-> panics # {},
        results |-> [m \in inserted \cup DOMAIN c.results |->
                        IF m \in inserted THEN Evaluate(c, m) ELSE c.results[m]]]

\* calculate, inserting into the results map it is handed
calculate(config, facts, dependency_type, results) ==
    calculate_calls([config |-> config, facts |-> facts,
                     dependency_type |-> dependency_type, results |-> results])

(***************************************************************************)
(* Ranker                                                                  *)
(***************************************************************************)
\* (avg * 100.0).round() / 100.0 for avg = total / count, total in tenths of
\* a point and not negative; the result is in hundredths of a point
round2(total, count) == (20 * total + count) \div (2 * count)

\* the points the loop of rank adds up over the metrics of S
RECURSIVE SumPoints(_, _)
SumPoints(outcomes, S) ==
    IF S = {} THEN 0
    ELSE LET m == CHOOSE x \in S : TRUE
         IN (IF outcomes[m].tag = "Match" THEN outcomes[m].points ELSE 0)
            + SumPoints(outcomes, S \ {m})

\* the score of rank: total_points / policy_outcomes.len(), rounded, and 0.0
\* for an empty map
overall_score_over_matches(outcomes) ==
    LET matched == {m \in DOMAIN outcomes : outcomes[m].tag = "Match"}
    IN IF matched = {} THEN 0
       ELSE round2(SumPoints(outcomes, matched), Cardinality(matched))
overall_score(outcomes) ==
    IF DOMAIN outcomes = {} THEN 0
    ELSE round2(SumPoints(outcomes, DOMAIN outcomes), Cardinality(DOMAIN outcomes))

\* the category scores of rank: one entry per category that category_points
\* holds, its points over its count, rounded
category_scores_over_all(outcomes) ==
    LET metrics == DOMAIN outcomes
        Of(cat) == {m \in metrics : category(m) = cat}
    IN [cat \in {category(m) : m \in metrics} |->
           round2(SumPoints(outcomes, Of(cat)), Cardinality(metrics))]
category_scores(outcomes) ==
    LET metrics == DOMAIN outcomes
        Of(cat) == {m \in metrics : category(m) = cat}
    IN [cat \in {category(m) : m \in metrics} |->
           round2(SumPoints(outcomes, Of(cat)), Cardinality(Of(cat)))]

\* the RankingOutcome that rank builds from the outcome map
RankingOutcome(outcomes, dependency_type) ==
    [overall_score |-> overall_score(outcomes),
     category_scores |-> category_scores(outcomes),
     details |-> outcomes,
     dependency_type |-> dependency_type]

(***************************************************************************)
(* Configuration, allow-list and gate                                      *)
(***************************************************************************)
\* an f64 threshold: a number, or NaN
F(v) == [nan |-> FALSE, v |-> v]
NaN == [nan |-> TRUE, v |-> 0]

default_medium_risk_threshold == 30
default_low_risk_threshold == 70

\* semver::Version: major.minor.patch, with or without a pre-release tag
Version(major, minor, patch, pre) ==
    [major |-> major, minor |-> minor, patch |-> patch, pre |-> pre]

\* semver::VersionReq, a list of comparators: "*", "=1.2.3" and "^1.0"
ReqStar == <<>>
ReqExact == <<[op |-> "=", major |-> 1, minor |-> 2, patch |-> <<3>>, pre |-> FALSE]>>
ReqCaret == <<[op |-> "^", major |-> 1, minor |-> 0, patch |-> <<>>, pre |-> FALSE]>>

\* one comparator of a requirement against a version: "=" with a full
\* version is equality, pre-release tag included; "^major.minor" admits the
\* same major with minor at least the comparator's (the same minor under
\* major 0)
matches_comparator(cmp, ver) ==
    IF cmp.op = "="
    THEN /\ ver.major = cmp.major
         /\ ver.minor = cmp.minor
         /\ <<ver.patch>> = cmp.patch
         /\ ver.pre = cmp.pre
    ELSE /\ ver.major = cmp.major
         /\ IF cmp.major > 0 THEN ver.minor >= cmp.minor ELSE ver.minor = cmp.minor

\* a pre-release version is admitted only through a comparator of the same
\* major.minor.patch that has a pre-release tag itself
pre_is_compatible(cmp, ver) ==
    /\ cmp.major = ver.major
    /\ cmp.minor = ver.minor
    /\ cmp.patch = <<ver.patch>>
    /\ cmp.pre

\* VersionReq::matches
version_matches(req, ver) ==
    /\ \A k \in 1..Len(req) : matches_comparator(req[k], ver)
    /\ ver.pre => \E k \in 1..Len(req) : pre_is_compatible(req[k], ver)

\* AllowListEntry::matches
matches_wildcard_name(entry, name, version) ==
    (entry.name = "*" \/ entry.name = name) /\ version_matches(entry.version, version)
matches(entry, name, version) ==
    entry.name = name /\ version_matches(entry.version, version)

\* Config::is_allowed
is_allowed_all(config, name, version) ==
    \A k \in 1..Len(config.allow_list) : matches(config.allow_list[k], name, version)
is_allowed(config, name, version) ==
    \E k \in 1..Len(config.allow_list) : matches(config.allow_list[k], name, version)

\* (0.0..=100.0).contains(x)
contains_0_100(x) == ~x.nan /\ 0 <= x.v /\ x.v <= 100

\* Config::validate
validate_allows_equal(config) ==
    IF ~contains_0_100(config.medium_risk_threshold) THEN "Err"
    ELSE IF ~contains_0_100(config.low_risk_threshold) THEN "Err"
    ELSE IF /\ ~config.medium_risk_threshold.nan
            /\ ~config.low_risk_threshold.nan
            /\ config.medium_risk_threshold.v > config.low_risk_threshold.v
         THEN "Err"
    ELSE "Ok"
validate(config) ==
    IF ~contains_0_100(config.medium_risk_threshold) THEN "Err"
    ELSE IF ~contains_0_100(config.low_risk_threshold) THEN "Err"
    ELSE IF /\ ~config.medium_risk_threshold.nan
            /\ ~config.low_risk_threshold.nan
            /\ config.medium_risk_threshold.v >= config.low_risk_threshold.v
         THEN "Err"
    ELSE "Ok"

\* a field that serde fills with its default when the document leaves it out
OrDefault(field, default) == IF field = <<>> THEN default ELSE field[1]

\* toml::from_str into Config: an unknown key is an error, a missing
\* threshold takes its default
from_str(text) ==
    IF text.unknown_key THEN [tag |-> "Err"]
    ELSE [tag |-> "Ok",
          config |->
              [allow_list |-> text.allow_list,
               medium_risk_threshold |->
                   OrDefault(text.medium_risk_threshold, F(default_medium_risk_threshold)),
               low_risk_threshold |->
                   OrDefault(text.low_risk_threshold, F(default_low_risk_threshold))]]

\* a configuration document
MkText(allow_list, medium, low, unknown_key) ==
    [allow_list |-> allow_list, medium_risk_threshold |-> medium,
     low_risk_threshold |-> low, unknown_key |-> unknown_key]

\* Config::default(): the embedded default document, which has an empty
\* allow-list
DEFAULT_CONFIG_TOML == MkText(<<>>, <<>>, <<>>, FALSE)
ConfigDefault == from_str(DEFAULT_CONFIG_TOML).config

\* the Config that Config::load returns, or its error: file is what
\* read_to_string finds ("text", "missing" or "unreadable") at the path,
\* which is config_path when explicit and aprz.toml otherwise
load_from(file) ==
    IF file.read # "text"
    THEN IF ~file.explicit /\ file.read = "missing"
         THEN [tag |-> "Ok", config |-> ConfigDefault]
         ELSE [tag |-> "Err"]
    ELSE LET parsed == from_str(file.text)
         IN IF parsed.tag = "Err" THEN parsed
            ELSE IF validate(parsed.config) = "Err" THEN [tag |-> "Err"]
            ELSE parsed

\* Risk
Risk == {"Low", "Medium", "High"}

\* the risk of a dependency: High when a high_risk expression is false,
\* otherwise by the thresholds
classify_by_score(config, score, high_risk_results) ==
    IF score >= config.low_risk_threshold.v THEN "Low"
    ELSE IF score < config.medium_risk_threshold.v THEN "High"
    ELSE "Medium"
classify(config, score, high_risk_results) ==
    IF \E k \in 1..Len(high_risk_results) : ~high_risk_results[k] THEN "High"
    ELSE IF score >= config.low_risk_threshold.v THEN "Low"
    ELSE IF score < config.medium_risk_threshold.v THEN "High"
    ELSE "Medium"

\* whether a risk is at or above the floor that the flags configure
AtOrAboveFloor(risk, error_if_medium, error_if_high) ==
    \/ error_if_medium /\ risk \in {"Medium", "High"}
    \/ error_if_high /\ risk = "High"

\* the exit code of the gate over the appraised dependencies
gate_ignores_allow_list(config, pairs, error_if_medium, error_if_high) ==
    IF \E d \in pairs : AtOrAboveFloor(d.risk, error_if_medium, error_if_high)
    THEN 1 ELSE 0
gate(config, pairs, error_if_medium, error_if_high) ==
    IF \E d \in pairs :
           /\ ~is_allowed(config, d.name, d.version)
           /\ AtOrAboveFloor(d.risk, error_if_medium, error_if_high)
    THEN 1 ELSE 0

\* Config::load
load ==
    /\ gate_status = "start"
    /\ load_result' = load_from(config_file)
    /\ gate_status' = IF load_result'.tag = "Ok" THEN "loaded" ELSE "load_failed"
    /\ UNCHANGED <<config_file, allowed_call, appraised, exit_code>>

\* a call of Config::is_allowed on the loaded Config
is_allowed_call(name, version) ==
    /\ gate_status = "loaded"
    /\ allowed_call' = <<[name |-> name, version |-> version,
                          result |-> is_allowed(load_result.config, name, version)]>>
    /\ UNCHANGED <<gate_status, config_file, load_result, appraised, exit_code>>

\* the appraisal of one dependency: its score and the results of the
\* high_risk expressions give its risk
appraise(name, version, score, high_risk_results) ==
    /\ gate_status = "loaded"
    /\ Cardinality(appraised) < MaxDeps
    /\ \A d \in appraised : d.name # name \/ d.version # version
    /\ appraised' =
          appraised \cup
              {[name |-> name, version |-> version,
                overall_score |-> score,
                high_risk_results |-> high_risk_results,
                risk |-> classify(load_result.config, score,
                                  high_risk_results)]}
    /\ UNCHANGED <<gate_status, config_file, load_result, allowed_call, exit_code>>

\* the gate runs over the appraised dependencies and the process exits
gate_exit(error_if_medium, error_if_high) ==
    /\ gate_status = "loaded"
    /\ exit_code' = <<[error_if_medium |-> error_if_medium,
                       error_if_high |-> error_if_high,
                       code |-> gate(load_result.config, appraised,
                                     error_if_medium, error_if_high)]>>
    /\ gate_status' = "exited"
    /\ UNCHANGED <<config_file, load_result, allowed_call, appraised>>

AllowNames == {"foo", "bar", "*"}
SemVersions ==
    {Version(1, 2, 3, FALSE), Version(1, 2, 4, FALSE), Version(2, 0, 0, FALSE),
     Version(0, 0, 1, FALSE), Version(1, 2, 3, TRUE)}
VersionReqs == {ReqStar, ReqExact, ReqCaret}
AllowListEntries == [name : AllowNames, version : VersionReqs]
Thresholds == {F(0 - 1), F(0), F(30), F(70), F(100), F(101), NaN}
OptionalThresholds == {<<>>} \cup {<<x>> : x \in Thresholds}

NoFile == [explicit |-> FALSE, read |-> "missing", text |-> DEFAULT_CONFIG_TOML]

GateIdle ==
    /\ gate_status = "off"
    /\ config_file = NoFile
    /\ load_result = [tag |-> "Err"]
    /\ allowed_call = <<>>
    /\ appraised = {}
    /\ exit_code = <<>>

(***************************************************************************)
(* Inputs of the ranker                                                    *)
(***************************************************************************)
\* a policy of the kind a metric reads, built from a shape: the dependency
\* types, the points and a level that sets the bound of the policy
MkPolicy(kind, s) ==
    CASE kind = "min" ->
           [dependency_types |-> s.types, points |-> s.points, min_count |-> s.level]
      [] kind = "max" ->
           [dependency_types |-> s.types, points |-> s.points, max_count |-> s.level]
      [] kind = "age" ->
           [dependency_types |-> s.types, points |-> s.points, min_days |-> s.level]
      [] kind = "version" ->
           [dependency_types |-> s.types, points |-> s.points,
            min_major_version |-> s.level]
      [] kind = "percentage" ->
           [dependency_types |-> s.types, points |-> s.points,
            min_percentage |-> s.level]
      [] kind \in {"release", "commit"} ->
           [dependency_types |-> s.types, points |-> s.points,
            min_count |-> s.level,
            max_days |-> IF s.level = 2 THEN 30 ELSE SUPPORTED_DAYS]
      [] kind = "boolean" ->
           [dependency_types |-> s.types, points |-> s.points, expected |-> TRUE]
      [] kind = "license" ->
           [dependency_types |-> s.types, points |-> s.points,
            licenses |-> IF s.level = 1 THEN {"MIT"} ELSE {"GPL"}]
      [] kind = "responsiveness" ->
           [dependency_types |-> s.types, points |-> s.points,
            max_average_days |-> s.level, max_p50_days |-> s.level,
            max_p75_days |-> s.level, max_p90_days |-> s.level,
            max_p95_days |-> s.level]
      [] kind = "disabled" ->
           [dependency_types |-> s.types, points |-> s.points, max_count |-> s.level]

PolicyShapes ==
    [types : {{"Standard"}, {"Dev", "Build"}}, points : {1, 2}, level : {1, 2}]

ScaledMetrics == {"License", "ReleaseCount", "RepoStarCount",
                  "IssueResponsiveness", "VulnerabilityCount"}

\* a Config: the same shapes for every metric, and a scale factor (in
\* tenths) for the metrics of ScaledMetrics unless scale is 0
MkConfig(shapes, scale) ==
    [policies |->
        [m \in Metric |->
            [i \in 1..Len(shapes) |-> MkPolicy(MetricKind(m), shapes[i])]],
     metric_scaling |->
        [m \in (IF scale = 0 THEN {} ELSE ScaledMetrics) |-> scale]]

\* the license expressions of the crates of the model; the crate whose
\* measurements are v carries the license LicenseOf(v)
Licenses == <<"None", "MIT", "MIT AND GPL-3.0-only">>
LicenseOf(v) == Licenses[(v % Len(Licenses)) + 1]
NotFoundTags == {"CrateNotFound", "VersionNotFound", "Error"}

\* the day the facts were collected (CrateFacts.collected_at)
CollectedDay == 50 * MaxValue

\* the payloads of a crate whose every measurement is v on the day the facts
\* were collected
Payload(field, v, lic, docs_unknown) ==
    LET stats == [avg |-> v, p50 |-> v, p75 |-> v, p90 |-> v, p95 |-> v]
        issue_stats == [open_count |-> v, closed_count |-> v, closed_age |-> stats]
    IN CASE field = "crate_version_data" ->
              [license |-> lic, version_major |-> v, created_at |-> CollectedDay - 50 * v]
         [] field = "crate_overall_data" ->
              [created_at |-> CollectedDay - v, downloads |-> v,
               monthly_downloads |-> IF v = 0 THEN <<>> ELSE <<v + 1, v>>,
               owners |-> IF v = 0 THEN <<>>
                          ELSE IF v = 1 THEN <<"User">> ELSE <<"Team", "User">>,
               dependents |-> v]
         [] field = "hosting_data" ->
              [stars |-> v, forks |-> v, subscribers |-> v, contributors |-> v,
               commits_last_3_months |-> v, issues |-> issue_stats,
               pulls |-> issue_stats]
         [] field = "advisory_data" -> [f \in DOMAIN AdvisoryDataDefault |-> v]
         [] field = "codebase_data" ->
              [unsafe_count |-> v, transitive_dependencies |-> v, example_count |-> v]
         [] field = "coverage_data" -> [code_coverage_percentage |-> v]
         [] field = "docs_data" ->
              [state |-> IF docs_unknown
                         THEN [tag |-> "UnknownFormatVersion", version |-> 2]
                         ELSE [tag |-> "Found",
                               metrics |-> [doc_coverage_percentage |-> v,
                                            broken_doc_links |-> v]]]

\* a CrateFacts: the fields of missing hold the tag not_found, the others
\* are Found
MkFacts(missing, not_found, v, lic, docs_unknown) ==
    [field \in ProviderFields |->
        IF field \in missing THEN [tag |-> not_found]
        ELSE [tag |-> "Found", data |-> Payload(field, v, lic, docs_unknown)]]

\* CrateFacts::is_complete
is_complete(facts) == \A field \in ProviderFields : IsFound(facts[field])

\* policy_outcomes.clear()
clear(outcomes) == <<>>

\* the body of Ranker::rank, called with facts and dependency_type
rank_call(facts, dependency_type) ==
    LET r == calculate(rank_config, facts, dependency_type, clear(policy_outcomes))
    IN /\ policy_outcomes' = r.results
       /\ IF r.panicked
          THEN /\ rank_status' = "panicked"
               /\ UNCHANGED <<rank_outcome, rank_history>>
          ELSE /\ rank_status' = "returned"
               /\ rank_outcome' = RankingOutcome(policy_outcomes', dependency_type)
               /\ rank_history' =
                     Append(rank_history,
                            [facts |-> facts, dependency_type |-> dependency_type,
                             at |-> now, outcome |-> rank_outcome'])

\* Ranker::rank, the first call on the Ranker
rank ==
    /\ rank_status = "ready"
    /\ rank_call(rank_facts, rank_dependency_type)
    /\ UNCHANGED <<rank_config, rank_facts, rank_dependency_type, now>>

NoOutcome == [overall_score |-> 0, category_scores |-> <<>>, details |-> <<>>,
              dependency_type |-> "none"]

RankIdle ==
    /\ rank_status = "off"
    /\ rank_config = MkConfig(<<>>, 0)
    /\ rank_facts = MkFacts({}, "Error", 0, "None", FALSE)
    /\ rank_dependency_type = "Standard"
    /\ policy_outcomes = <<>>
    /\ rank_outcome = NoOutcome
    /\ now = CollectedDay
    /\ rank_history = <<>>

RankInit ==
    /\ TrackerIdle
    /\ ScanIdle
    /\ GateIdle
    /\ IndicatorIdle
    /\ OtherIdle
    /\ rank_status = "ready"
    /\ policy_outcomes = <<>>
    /\ rank_outcome = NoOutcome
    /\ now = CollectedDay
    /\ rank_history = <<>>
    /\ rank_dependency_type \in DependencyType
    /\ \E shapes \in SeqsUpTo(PolicyShapes, MaxPolicies), scale \in {0, 5},
          missing \in {S \in SUBSET ProviderFields : Cardinality(S) <= MaxMissing},
          not_found \in NotFoundTags, v \in 0..MaxValue,
          docs_unknown \in BOOLEAN :
        /\ missing = {} => not_found = "Error"
        /\ \/ missing = {} /\ ~docs_unknown /\ (scale = 0 \/ Len(shapes) <= 2)
           \/ Len(shapes) <= 1 /\ scale = 0 /\ v = 1
        /\ "docs_data" \in missing => ~docs_unknown
        /\ rank_config = MkConfig(shapes, scale)
        /\ rank_facts = MkFacts(missing, not_found, v, LicenseOf(v), docs_unknown)

RankNext == rank /\ UNCHANGED <<trackerVars, scanVars, gateVars, indicatorVars, otherVars>>

RankSpec == RankInit /\ [][RankNext]_vars

\* Ranker::rank, a later call on the same Ranker with facts of its own
rank_again ==
    /\ rank_status = "returned"
    /\ Len(rank_history) < MaxRankCalls
    /\ \E v \in 0..MaxValue :
          /\ rank_facts' = MkFacts({}, "Error", v, LicenseOf(v), FALSE)
          /\ rank_call(rank_facts', rank_dependency_type)
    /\ UNCHANGED <<rank_config, rank_dependency_type, now>>

\* a day passes between two calls of rank
clock_advances ==
    /\ now < CollectedDay + MaxDays
    /\ now' = now + 1
    /\ UNCHANGED <<rank_status, rank_config, rank_facts, rank_dependency_type,
                   policy_outcomes, rank_outcome, rank_history>>

\* a Ranker over a configuration of at most one policy per metric, first
\* called with complete facts
RankAgainInit ==
    /\ TrackerIdle
    /\ ScanIdle
    /\ GateIdle
    /\ IndicatorIdle
    /\ OtherIdle
    /\ rank_status = "ready"
    /\ policy_outcomes = <<>>
    /\ rank_outcome = NoOutcome
    /\ now = CollectedDay
    /\ rank_history = <<>>
    /\ rank_dependency_type \in DependencyType
    /\ \E shapes \in SeqsUpTo(PolicyShapes, 1), v \in 0..MaxValue :
        /\ rank_config = MkConfig(shapes, 0)
        /\ rank_facts = MkFacts({}, "Error", v, LicenseOf(v), FALSE)

RankAgainNext ==
    /\ rank \/ rank_again \/ clock_advances
    /\ UNCHANGED <<trackerVars, scanVars, gateVars, indicatorVars, otherVars>>

RankAgainSpec == RankAgainInit /\ [][RankAgainNext]_vars


(***************************************************************************)
(* Specifications                                                          *)
(***************************************************************************)
TrackerInit ==
    TrackerIdle /\ ScanIdle /\ RankIdle /\ GateIdle /\ IndicatorIdle /\ OtherIdle

TrackerStep ==
    \/ \E t \in Tasks, n \in Names : add_request(t, n)
    \/ \E t \in Tasks, n \in Names, count \in 1..MaxMany : add_many_requests(t, n, count)
    \/ \E t \in Tasks, n \in Names : add_many_requests_zero(t, n)
    \/ \E t \in Tasks, n \in Names : complete_request(t, n)
    \/ \E t \in Tasks : fetch_add(t)
    \/ \E t \in Tasks : update_progress_lock(t)
    \/ \E t \in Tasks : load_issued(t)
    \/ \E t \in Tasks : load_completed(t)
    \/ \E t \in Tasks : publish_length(t)
    \/ \E t \in Tasks : publish_nothing(t)
    \/ \E t \in Tasks : publish_position(t)
    \/ \E t \in Tasks : publish_message(t)
    \/ delay_elapses

\* callers that complete only requests they have issued
TrackerNext == TrackerStep /\ UNCHANGED <<scanVars, rankVars, gateVars, indicatorVars, otherVars>>

\* callers that call the three operations in any order
TrackerAnyNext ==
    /\ \/ TrackerStep
       \/ \E t \in Tasks, n \in Names : complete_request_unmatched(t, n)
    /\ UNCHANGED <<scanVars, rankVars, gateVars, indicatorVars, otherVars>>

TrackerSpec == TrackerInit /\ [][TrackerNext]_vars
TrackerAnySpec == TrackerInit /\ [][TrackerAnyNext]_vars

ScanInit ==
    /\ TrackerIdle
    /\ RankIdle
    /\ GateIdle
    /\ IndicatorIdle
    /\ OtherIdle
    /\ scan_pc = "idle"
    /\ crates = <<>>
    /\ crates_left = <<>>
    /\ crate_map = <<>>
    /\ advisories_checked = 0
    /\ scan_output = <<>>

ScanNext ==
    /\ \/ \E input \in SeqsUpTo(CrateSpecs, MaxSpecs) : scan_start(input)
       \/ scan_group
       \/ scan_grouped
       \/ \E advisory \in Advisories : scan_advisory(advisory)
       \/ scan_scanned
       \/ \E name \in CrateNames : scan_emit(name)
       \/ scan_done
    /\ UNCHANGED <<trackerVars, rankVars, gateVars, indicatorVars, otherVars>>

ScanSpec == ScanInit /\ [][ScanNext]_vars

\* the configuration documents that Config::load is run on: the thresholds
\* vary under an empty allow-list, the allow-list under default thresholds
ConfigFiles ==
    {[explicit |-> explicit, read |-> read, text |-> text] :
        explicit \in BOOLEAN, read \in {"missing", "unreadable"},
        text \in {DEFAULT_CONFIG_TOML}}
    \cup
    {[explicit |-> explicit, read |-> "text",
      text |-> MkText(<<>>, medium, low, unknown_key)] :
        explicit \in BOOLEAN, medium \in OptionalThresholds,
        low \in OptionalThresholds, unknown_key \in BOOLEAN}
    \cup
    {[explicit |-> explicit, read |-> "text",
      text |-> MkText(allow_list, <<>>, <<>>, FALSE)] :
        explicit \in BOOLEAN,
        allow_list \in SeqsUpTo(AllowListEntries, MaxEntries)}

ConfigInit ==
    /\ TrackerIdle
    /\ ScanIdle
    /\ RankIdle
    /\ IndicatorIdle
    /\ OtherIdle
    /\ gate_status = "start"
    /\ config_file \in ConfigFiles
    /\ load_result = [tag |-> "Err"]
    /\ allowed_call = <<>>
    /\ appraised = {}
    /\ exit_code = <<>>

ConfigNext ==
    /\ \/ load
       \/ \E name \in AllowNames, version \in SemVersions : is_allowed_call(name, version)
    /\ UNCHANGED <<trackerVars, scanVars, rankVars, indicatorVars, otherVars>>

ConfigSpec == ConfigInit /\ [][ConfigNext]_vars

\* the inputs of the appraisal of a dependency
Scores == {20, 30, 50, 70, 75}
Appraisals ==
    {[overall_score |-> score, high_risk_results |-> results] :
        score \in Scores, results \in {<<>>, <<TRUE>>}}
    \cup {[overall_score |-> 75, high_risk_results |-> <<TRUE, FALSE>>]}
GateNames == {"foo", "bar"}
GateVersions == {Version(1, 2, 3, FALSE), Version(2, 0, 0, FALSE)}

\* a loaded Config, of at most one allow-list entry
GateInit ==
    /\ TrackerIdle
    /\ ScanIdle
    /\ RankIdle
    /\ IndicatorIdle
    /\ OtherIdle
    /\ gate_status = "loaded"
    /\ \/ \E allow_list \in SeqsUpTo(AllowListEntries, 1) :
             config_file = [explicit |-> TRUE, read |-> "text",
                            text |-> MkText(allow_list, <<>>, <<>>, FALSE)]
       \/ config_file = [explicit |-> TRUE, read |-> "text",
                         text |-> MkText(<<>>, <<F(0)>>, <<F(100)>>, FALSE)]
    /\ load_result = load_from(config_file)
    /\ allowed_call = <<>>
    /\ appraised = {}
    /\ exit_code = <<>>

GateNext ==
    /\ \/ \E name \in GateNames, version \in GateVersions, a \in Appraisals :
             appraise(name, version, a.overall_score, a.high_risk_results)
       \/ \E error_if_medium, error_if_high \in BOOLEAN :
             gate_exit(error_if_medium, error_if_high)
    /\ UNCHANGED <<trackerVars, scanVars, rankVars, indicatorVars, otherVars>>

GateSpec == GateInit /\ [][GateNext]_vars

\* the fields of the tracker that the reporter does not hold
requestVars == <<counters, mutex, pc, op, loc, published, calls, started,
                 returned, uncovered>>

Lengths == 0..MaxLen
Messages == {<<>>, NoRequests}
Prefixes == {"Preparing", "Collecting"}

\* a foreground call of a public operation that leaves the inner bar's
\* prefix and finished flag alone
ForegroundCall(call) ==
    /\ call
    /\ Reveals("foreground")
    /\ UNCHANGED <<bar_prefix, bar_finished, ticker>>

reporter_set_prefix(prefix) ==
    /\ set_prefix(prefix)
    /\ UNCHANGED <<bar_finished, ticker, revealed_by>>

reporter_force_visible ==
    /\ force_visible
    /\ Reveals("force_visible")
    /\ UNCHANGED <<bar_prefix, bar_finished, ticker>>

reporter_finish_and_clear ==
    /\ finish_and_clear
    /\ UNCHANGED <<bar_prefix, ticker, revealed_by>>

\* ProgressReporter::start_visibility_checking: the task is spawned
start_visibility_checking ==
    /\ ticker # "running"
    /\ ticker' = "running"
    /\ UNCHANGED <<reporterVars, bar_prefix, bar_finished, revealed_by>>

\* the interval of the visibility task fires: it calls tick_visibility
ticker_tick ==
    /\ ticker = "running"
    /\ tick_visibility
    /\ Reveals("ticker")
    /\ UNCHANGED <<bar_prefix, bar_finished, ticker>>

\* the VisibilityTaskGuard is dropped: the task is aborted
guard_drop ==
    /\ ticker = "running"
    /\ ticker' = "aborted"
    /\ UNCHANGED <<reporterVars, bar_prefix, bar_finished, revealed_by>>

\* the delay runs out
reporter_delay_elapses ==
    /\ delay_elapses
    /\ UNCHANGED indicatorVars

ReporterInit ==
    TrackerIdle /\ ScanIdle /\ RankIdle /\ GateIdle /\ IndicatorIdle /\ OtherIdle

ReporterNext ==
    /\ \/ \E len \in Lengths : ForegroundCall(enable_determinate_mode(len))
       \/ \E pos \in Lengths : ForegroundCall(set_position(pos))
       \/ \E msg \in Messages : ForegroundCall(set_message(msg))
       \/ \E prefix \in Prefixes : reporter_set_prefix(prefix)
       \/ ForegroundCall(enable_indeterminate_mode)
       \/ ForegroundCall(tick_visibility)
       \/ reporter_force_visible
       \/ reporter_finish_and_clear
       \/ start_visibility_checking
       \/ ticker_tick
       \/ guard_drop
       \/ reporter_delay_elapses
    /\ UNCHANGED <<requestVars, scanVars, rankVars, gateVars, otherVars>>

\* the runtime keeps firing the interval of a running visibility task
ReporterFairness ==
    WF_vars(ticker_tick /\ UNCHANGED <<requestVars, scanVars, rankVars, gateVars, otherVars>>)

ReporterSpec == ReporterInit /\ [][ReporterNext]_vars /\ ReporterFairness

Quiescent == \A t \in Tasks : pc[t] = "idle"
(***************************************************************************)
(* Request tracker: properties                                             *)
(***************************************************************************)
\* C1 (as stated): after any sequence of add_request, add_many_requests and
\* complete_request calls, completed(name) <= issued(name) for every name.
C1_CompletedLeIssuedAnySequence ==
    \A n \in Names : Completed(n) <= Issued(n)

\* C1 (amended): completed(name) <= issued(name) for every name whose
\* complete_request calls each started after a matching add had returned.
C1_CompletedLeIssuedWhenMatched ==
    \A n \in Names \ uncovered : Completed(n) <= Issued(n)

\* Some name was completed without an add and shows completed > issued,
\* another was issued and completed by the rules.
C1_Witness ==
    /\ Quiescent
    /\ \E n \in uncovered : Completed(n) > Issued(n)
    /\ \E n \in Names \ uncovered : Completed(n) >= 1 /\ Issued(n) = Completed(n)

\* C2: with callers that complete only what a returned add covers, no
\* published snapshot shows completed > issued, neither in a
\* "completed/issued name" part of the message nor as position > length.
C2_PublishedSnapshotsConsistent ==
    /\ bar_position <= bar_length
    /\ \A k \in 1..Len(bar_message) : bar_message[k][1] <= bar_message[k][2]

\* A snapshot with a completion is published while one task reads the
\* counters under the mutex and the other, past its fetch_add, waits for it.
C2_Witness ==
    /\ published
    /\ bar_position >= 1
    /\ \E t, u \in Tasks : pc[t] = "load_completed" /\ pc[u] = "lock"

ExpectedMessage ==
    LET D == DOMAIN counters
        Pos(n) == 1 + Cardinality({m \in D : NameRank(m) < NameRank(n)})
        At(k) == CHOOSE n \in D : Pos(n) = k
    IN [k \in 1..Cardinality(D) |->
          <<counters[At(k)].completed, counters[At(k)].issued, At(k)>>]

CountOf(q, spec) == Cardinality({k \in 1..Len(q) : q[k].spec = spec})
CountIn(q, spec) == Cardinality({k \in 1..Len(q) : q[k] = spec})

\* C5: scan_advisories returns exactly one pair per input element: as many
\* pairs as inputs, and each spec as often as the input holds it.
C5_OnePairPerInput ==
    scan_pc = "done" =>
        /\ Len(scan_output) = Len(crates)
        /\ \A spec \in CrateSpecs :
             CountOf(scan_output, spec) = CountIn(crates, spec)

\* The scan is over for an input that holds one spec twice, after an
\* advisory for its name.
C5_Witness ==
    /\ scan_pc = "done"
    /\ \E spec \in CrateSpecs :
         /\ CountIn(crates, spec) = 2
         /\ \E k \in 1..Len(scan_output) :
              /\ scan_output[k].spec = spec
              /\ scan_output[k].result.data.historical_vulnerability_count > 0

(***************************************************************************)
(* Metric calculator and ranker: properties                                *)
(***************************************************************************)
\* rank has run on the inputs, to its return or to a panic
Ranked == rank_status \in {"returned", "panicked"}

\* the predicate that the function of metric m hands to the policy loop,
\* on the i-th configured policy of m and the facts handed to rank
PolicyHolds(m, i) ==
    LET policy == rank_config.policies[m][i]
        kind == MetricKind(m)
        version_data == rank_facts.crate_version_data.data
        hosting == rank_facts.hosting_data.data
    IN CASE kind = "license" ->
              license_is_some_and(policy, version_data.license)
         [] kind = "age" -> Observed(rank_facts, m) >= policy.min_days
         [] kind = "version" -> Observed(rank_facts, m) >= policy.min_major_version
         [] kind = "release" ->
              count_releases_in_period(version_data, policy.max_days)
                  >= policy.min_count
         [] kind = "commit" ->
              policy.max_days = SUPPORTED_DAYS
                  /\ hosting.commits_last_3_months >= policy.min_count
         [] kind = "boolean" -> rank_facts.codebase_data.data.unsafe_count = 0
         [] kind = "percentage" -> Observed(rank_facts, m) >= policy.min_percentage
         [] kind = "min" -> Observed(rank_facts, m) >= policy.min_count
         [] kind = "max" -> Observed(rank_facts, m) <= policy.max_count
         [] kind = "responsiveness" ->
              responsive(IF m = "IssueResponsiveness"
                         THEN hosting.issues.closed_age
                         ELSE hosting.pulls.closed_age, policy)

\* the configured policies of m that list the dependency type handed to rank
\* and whose predicate holds, by their position in the configured order
Deciding(m) ==
    {i \in 1..Len(rank_config.policies[m]) :
        /\ rank_dependency_type \in rank_config.policies[m][i].dependency_types
        /\ PolicyHolds(m, i)}

\* the scale factor of m: metric_scaling[m], 1.0 when none is configured
ScaleOf(m) ==
    IF m \in DOMAIN rank_config.metric_scaling
    THEN rank_config.metric_scaling[m] ELSE ScaleOne

\* C6: the outcome of every evaluated metric is decided by the first policy,
\* in configured order, that lists the current dependency type and whose
\* predicate holds: it is Match(policy.points * scale factor of the metric);
\* later policies and policies that exclude the dependency type do not
\* change it, and without such a policy the outcome is a NoMatch.
C6_FirstApplicablePolicyDecides ==
    Ranked =>
        \A m \in DOMAIN policy_outcomes :
            IF Deciding(m) = {}
            THEN policy_outcomes[m].tag = "NoMatch"
            ELSE /\ policy_outcomes[m].tag = "Match"
                 /\ policy_outcomes[m].points =
                        rank_config.policies[m][Min(Deciding(m))].points * ScaleOf(m)

\* two policies of a scaled metric both decide, with different points, and
\* another metric has a first policy that excludes nothing but does not hold
C6_Witness ==
    /\ rank_status = "returned"
    /\ \E m \in DOMAIN policy_outcomes :
          /\ Deciding(m) = {1, 2}
          /\ rank_config.policies[m][1].points # rank_config.policies[m][2].points
          /\ ScaleOf(m) # ScaleOne
          /\ policy_outcomes[m].tag = "Match"
    /\ \E m \in DOMAIN policy_outcomes : Deciding(m) = {2}

\* the payload that metric m reads is available: its provider field is
\* Found and, for the docs metrics, the docs payload is Found
Available(m) ==
    /\ IsFound(rank_facts[FactsField(m)])
    /\ FactsField(m) = "docs_data" =>
           rank_facts.docs_data.data.state.tag = "Found"

\* the metrics that read a provider field
ProviderMetrics == {m \in Metric : FactsField(m) \in ProviderFields}

\* C7: after rank, a metric whose provider field is not Found (or whose docs
\* payload is of an unknown format version) has no outcome, and every metric
\* whose provider field is available has one.
C7_AbsentIffUnavailable ==
    Ranked =>
        \A m \in ProviderMetrics : m \in DOMAIN policy_outcomes <=> Available(m)

\* C8: rank returns normally on every CrateFacts value.
C8_RankIsTotal == rank_status # "panicked"

\* C9: every evaluated metric that has no configured policy has the outcome
\* NoMatch("no policy defined").
C9_NoPolicyDefined ==
    Ranked =>
        \A m \in DOMAIN policy_outcomes :
            rank_config.policies[m] = <<>> =>
                policy_outcomes[m] = NoMatch(NoPolicyDefined)

\* the facts handed to rank are complete, docs payload included
CompleteFacts ==
    /\ is_complete(rank_facts)
    /\ rank_facts.docs_data.data.state.tag = "Found"

\* C10 as stated: on complete facts the outcome map of calculate has an
\* outcome for every metric of the catalog.
C10_EveryMetricHasOutcome ==
    (Ranked /\ CompleteFacts) => DOMAIN policy_outcomes = Metric

\* C10: on complete facts the outcome map of calculate has exactly one
\* outcome, a Match or a NoMatch, for every metric of the catalog other than
\* DirectDependencyCount, and none for DirectDependencyCount.
C10_EveryEnabledMetricHasOutcome ==
    (Ranked /\ CompleteFacts) =>
        /\ rank_status = "returned"
        /\ DOMAIN policy_outcomes = Metric \ {"DirectDependencyCount"}
        /\ \A m \in DOMAIN policy_outcomes :
               policy_outcomes[m].tag \in {"Match", "NoMatch"}

C10_Witness ==
    /\ rank_status = "returned"
    /\ CompleteFacts
    /\ Cardinality(DOMAIN policy_outcomes) = Cardinality(Metric) - 1
    /\ \E m, n \in DOMAIN policy_outcomes :
          policy_outcomes[m].tag = "Match" /\ policy_outcomes[n].tag = "NoMatch"

\* the points of the Match outcomes of the metrics of S, in tenths: each
\* point value times the number of outcomes of S that carry it
MatchPoints(S) ==
    LET matched == {m \in S : policy_outcomes[m].tag = "Match"}
        values == {policy_outcomes[m].points : m \in matched}
    IN SumOver([p \in values |->
                   p * Cardinality({m \in matched : policy_outcomes[m].points = p})],
               values)

\* score (in hundredths) is total / count rounded to two decimals, halves
\* rounded up: score - 0.005 <= total / count < score + 0.005
IsRounded(score, total, count) ==
    /\ 2 * score * count - count <= 20 * total
    /\ 20 * total < 2 * score * count + count

\* C11: the overall score that rank returns is the sum of the points of the
\* Match outcomes over the number of all outcomes, NoMatch outcomes
\* included and omitted metrics left out, rounded to two decimals; it is 0
\* for an empty outcome map.
C11_OverallScore ==
    rank_status = "returned" =>
        IF DOMAIN policy_outcomes = {}
        THEN rank_outcome.overall_score = 0
        ELSE IsRounded(rank_outcome.overall_score,
                       MatchPoints(DOMAIN policy_outcomes),
                       Cardinality(DOMAIN policy_outcomes))

\* rank returned a map with Match and NoMatch outcomes and with omitted
\* metrics, and the average is not a whole number of hundredths
C11_Witness ==
    /\ rank_status = "returned"
    /\ \E m, n \in DOMAIN policy_outcomes :
          policy_outcomes[m].tag = "Match" /\ policy_outcomes[n].tag = "NoMatch"
    /\ Cardinality(DOMAIN policy_outcomes) < Cardinality(Metric) - 1
    /\ (10 * MatchPoints(DOMAIN policy_outcomes))
           % Cardinality(DOMAIN policy_outcomes) # 0
    /\ rank_outcome.overall_score > 0

\* the categories of the catalog
MetricCategory == {category(m) : m \in Metric}

\* C12: the category scores that rank returns have an entry exactly for the
\* categories with an outcome; the entry of a category is the sum of the
\* points of its outcomes over their number, rounded to two decimals; every
\* outcome belongs to a category with an entry, and the numbers of outcomes
\* of these categories add up to the number of outcomes.
C12_CategoryScores ==
    rank_status = "returned" =>
        LET scores == rank_outcome.category_scores
            Of(cat) == {m \in DOMAIN policy_outcomes : category(m) = cat}
        IN /\ DOMAIN scores = {cat \in MetricCategory : Of(cat) # {}}
           /\ \A cat \in DOMAIN scores :
                  IsRounded(scores[cat], MatchPoints(Of(cat)), Cardinality(Of(cat)))
           /\ \A m \in DOMAIN policy_outcomes : category(m) \in DOMAIN scores
           /\ SumOver([cat \in DOMAIN scores |-> Cardinality(Of(cat))], DOMAIN scores)
                = Cardinality(DOMAIN policy_outcomes)

\* rank returned scores for some but not all categories, one of them of a
\* category with Match and NoMatch outcomes
C12_Witness ==
    /\ rank_status = "returned"
    /\ DOMAIN rank_outcome.category_scores # MetricCategory
    /\ \E m, n \in DOMAIN policy_outcomes :
          /\ category(m) = category(n)
          /\ policy_outcomes[m].tag = "Match"
          /\ policy_outcomes[n].tag = "NoMatch"
          /\ rank_outcome.category_scores[category(m)] > 0

\* C13: two calls of rank on the same Ranker with the same facts and
\* dependency type return the same RankingOutcome, whenever they are made
\* and whatever calls were made in between.
C13_RankIsPure ==
    \A i, j \in 1..Len(rank_history) :
        /\ rank_history[i].facts = rank_history[j].facts
        /\ rank_history[i].dependency_type = rank_history[j].dependency_type
        => rank_history[i].outcome = rank_history[j].outcome

OnAllowList(config, d) ==
    \E k \in 1..Len(config.allow_list) :
        /\ config.allow_list[k].name = d.name
        /\ version_matches(config.allow_list[k].version, d.version)

\* C15: the gate exits with 1 iff some dependency that is not on the
\* allow-list is Medium or High under error_if_medium, or High under
\* error_if_high, and with 0 otherwise; a dependency on the allow-list never
\* causes exit code 1.
C15_GateExitCode ==
    exit_code # <<>> =>
        LET e == exit_code[1]
            Fails(d) == \/ e.error_if_medium /\ d.risk # "Low"
                        \/ e.error_if_high /\ d.risk = "High"
        IN /\ e.code \in {0, 1}
           /\ e.code = 1 <=>
                \E d \in appraised : ~OnAllowList(load_result.config, d) /\ Fails(d)

\* the gate exits with 0 under error_if_high although a High dependency was
\* appraised, because the allow-list names it; the other dependency is not on
\* the list and is Medium
C15_Witness ==
    /\ exit_code # <<>>
    /\ exit_code[1].code = 0
    /\ exit_code[1].error_if_high
    /\ \E d, e \in appraised :
          /\ d.risk = "High" /\ OnAllowList(load_result.config, d)
          /\ e.risk = "Medium" /\ ~OnAllowList(load_result.config, e)

SingleStarEntry ==
    /\ gate_status = "loaded"
    /\ Len(load_result.config.allow_list) = 1
    /\ load_result.config.allow_list[1].version = ReqStar

\* C17 as stated: under the single entry {name="*", version="*"},
\* is_allowed is true for every name and version.
C17_WildcardEntryAllowsAll ==
    (/\ SingleStarEntry
     /\ load_result.config.allow_list[1].name = "*"
     /\ allowed_call # <<>>)
    => allowed_call[1].result

\* C17: under a single entry {name=n, version="*"}, is_allowed is true
\* exactly for the name n itself, "*" being a name like any other, with any
\* version that has no pre-release tag.
C17_StarVersionAllowsOneName ==
    (SingleStarEntry /\ allowed_call # <<>>) =>
        (allowed_call[1].result <=>
            /\ allowed_call[1].name = load_result.config.allow_list[1].name
            /\ ~allowed_call[1].version.pre)

\* under the entry {name="*", version="*"}, is_allowed("foo", 1.2.3) returned
\* false
C17_Witness ==
    /\ SingleStarEntry
    /\ load_result.config.allow_list[1].name = "*"
    /\ allowed_call # <<>>
    /\ allowed_call[1].name = "foo"
    /\ allowed_call[1].version = Version(1, 2, 3, FALSE)
    /\ ~allowed_call[1].result

\* 0 <= medium < low <= 100, of numbers
ThresholdsInOrder(medium, low) ==
    /\ ~medium.nan /\ ~low.nan
    /\ 0 <= medium.v /\ medium.v < low.v /\ low.v <= 100

\* C18: a parsed configuration is accepted iff both thresholds are in
\* [0, 100] and medium_risk_threshold < low_risk_threshold; every Config
\* that load returns, parsed from a file or the default, has
\* 0 <= medium < low <= 100.
C18_ValidatedThresholds ==
    /\ (/\ gate_status \in {"loaded", "load_failed"}
        /\ config_file.read = "text"
        /\ ~config_file.text.unknown_key)
       => LET parsed == from_str(config_file.text).config
              InRange(x) == ~x.nan /\ 0 <= x.v /\ x.v <= 100
          IN load_result.tag = "Ok" <=>
                 /\ InRange(parsed.medium_risk_threshold)
                 /\ InRange(parsed.low_risk_threshold)
                 /\ parsed.medium_risk_threshold.v < parsed.low_risk_threshold.v
    /\ load_result.tag = "Ok" =>
          ThresholdsInOrder(load_result.config.medium_risk_threshold,
                            load_result.config.low_risk_threshold)

\* load accepted the boundary thresholds 0 and 100
C18_Witness ==
    /\ gate_status = "loaded"
    /\ config_file.read = "text"
    /\ load_result.config.medium_risk_threshold = F(0)
    /\ load_result.config.low_risk_threshold = F(100)

C20_TickerReveals ==
    /\ [][(ticker_tick /\ has_content /\ delay_elapsed) => visible']_vars
    /\ (ticker = "running" /\ has_content /\ delay_elapsed)
          ~> (visible \/ ticker # "running")
    /\ [](~has_content => ~visible)

\* the visibility task made the indicator visible and is still running
C20_Witness ==
    /\ visible
    /\ revealed_by = "ticker"
    /\ ticker = "running"

(***************************************************************************)
(* License check: specification                                            *)
(***************************************************************************)
AllowedNames == {"MIT", "mit", "GPL", "GPL-3.0-only"}

LicenseTexts ==
    {"None", "MIT", "MIT AND GPL-3.0-only", "(MIT)AND(GPL-3.0-only)",
     "MIT OR GPL-3.0-only", "MIT OR LicenseRef-Custom", "Proprietary MIT-like"}

\* the License metric evaluates one policy on the license of the crate
license_check ==
    /\ lic_result = <<>>
    /\ lic_result' = <<license_is_some_and([licenses |-> lic_policy], lic_expr)>>
    /\ UNCHANGED <<lic_policy, lic_expr>>

LicenseInit ==
    /\ TrackerIdle
    /\ ScanIdle
    /\ RankIdle
    /\ GateIdle
    /\ IndicatorIdle
    /\ ValidateIdle
    /\ GitIdle
    /\ ProviderIdle
    /\ RowsIdle
    /\ lic_policy \in SUBSET AllowedNames
    /\ lic_expr \in LicenseTexts
    /\ lic_result = <<>>

LicenseNext ==
    /\ license_check
    /\ UNCHANGED <<trackerVars, scanVars, rankVars, gateVars, indicatorVars,
                   validateVars, gitVars, providerVars, rowVars>>

LicenseSpec == LicenseInit /\ [][LicenseNext]_vars

\* a requirement is on the allowed list: its identifier is known and one of
\* the allowed names is the same name, or a part of it or it a part of the
\* name, letter case aside
RequirementAllowed(req, allowed_licenses) ==
    /\ req # "LicenseRef-Custom"
    /\ \E allowed \in allowed_licenses :
          \/ contains(to_lowercase(req), to_lowercase(allowed))
          \/ contains(to_lowercase(allowed), to_lowercase(req))

\* C21: on a parseable SPDX expression check_license returns true iff, when
\* the expression contains the AND operator, every requirement is on the
\* allowed list, and otherwise iff at least one requirement is; a requirement
\* with an unknown identifier is disallowed, and a crate with no license
\* never matches a license policy.
C21_LicenseCombinator ==
    lic_result # <<>> =>
        LET expr == spdx_parse(lic_expr)
            reqs == {expr.requirements[k] : k \in 1..Len(expr.requirements)}
        IN /\ lic_expr = "None" => lic_result[1] = FALSE
           /\ expr.ok =>
                lic_result[1] =
                    IF "AND" \in expr.operators
                    THEN \A req \in reqs : RequirementAllowed(req, lic_policy)
                    ELSE \E req \in reqs : RequirementAllowed(req, lic_policy)

(***************************************************************************)
(* Policy validation                                                       *)
(***************************************************************************)
\* a warning of validate: policy #i dominates policy #j for the dependency
\* types of overlap (the indices count from 1 here)
Warning(i, j, overlap) == [i |-> i, j |-> j, overlap |-> overlap]

\* DependencyTypes::intersect
intersect(a, b) == a \cap b

\* the two loops of validate over the pairs i < j whose dependency types
\* overlap; dominates(a, b) is the test of the policy type
validate_pairs(policies, dominates(_, _)) ==
    {Warning(i, j, intersect(policies[i].dependency_types,
                             policies[j].dependency_types)) :
        <<i, j>> \in {pair \in (1..Len(policies)) \X (1..Len(policies)) :
                        /\ pair[1] < pair[2]
                        /\ intersect(policies[pair[1]].dependency_types,
                                     policies[pair[2]].dependency_types) # {}
                        /\ dominates(policies[pair[1]], policies[pair[2]])}}

\* MaxCountPolicy::validate
max_count_validate(policies) ==
    LET dominates(policy_a, policy_b) == policy_a.max_count >= policy_b.max_count
    IN validate_pairs(policies, dominates)

\* AgedCountPolicy::validate
aged_count_validate(policies) ==
    LET dominates(policy_a, policy_b) ==
            /\ policy_a.min_count <= policy_b.min_count
            /\ policy_a.max_days >= policy_b.max_days
    IN validate_pairs(policies, dominates)

\* LicensePolicy::validate
license_validate(policies) ==
    LET dominates(policy_a, policy_b) == policy_a.licenses \cap policy_b.licenses # {}
    IN validate_pairs(policies, dominates)

\* Policy::validate for the policies of a metric
validate_policies(metric, policies) ==
    CASE MetricKind(metric) = "max" -> max_count_validate(policies)
      [] MetricKind(metric) \in {"release", "commit"} -> aged_count_validate(policies)
      [] MetricKind(metric) = "license" -> license_validate(policies)

ValidatedMetrics == {"OpenIssueCount", "ReleaseCount", "CommitActivity", "License"}
ValidatedTypes == {{"Standard"}, {"Dev", "Build"}, {"Standard", "Dev"}}
AgedDays == {30, SUPPORTED_DAYS, 180}

\* the policies a config can hold for a metric; in the model the points of
\* a policy are its place in the list, which tells the policies apart
PoliciesOf(metric) ==
    CASE MetricKind(metric) = "max" ->
           [dependency_types : ValidatedTypes, points : {0}, max_count : 0..MaxValue]
      [] MetricKind(metric) \in {"release", "commit"} ->
           [dependency_types : ValidatedTypes, points : {0},
            min_count : 1..MaxValue, max_days : AgedDays]
      [] MetricKind(metric) = "license" ->
           [dependency_types : ValidatedTypes, points : {0},
            licenses : {{"MIT"}, {"GPL"}, {"MIT", "GPL"}}]

PolicyLists(metric) ==
    {[i \in 1..MaxPolicies |-> [list[i] EXCEPT !.points = i]] :
        list \in [1..MaxPolicies -> PoliciesOf(metric)]}

\* the validate command checks the policies of a metric
validate_config ==
    /\ val_warnings = <<>>
    /\ val_warnings' = <<validate_policies(val_metric, val_policies)>>
    /\ UNCHANGED <<val_metric, val_policies, val_probe>>

\* the calculator evaluates the metric for some crate and dependency type
evaluate_metric ==
    /\ val_warnings # <<>>
    /\ val_probe = <<>>
    /\ \E dependency_type \in DependencyType, v \in 0..MaxValue :
          LET config == [policies |-> [m \in Metric |->
                                         IF m = val_metric THEN val_policies
                                         ELSE <<>>],
                         metric_scaling |-> <<>>]
              c == [config |-> config,
                    facts |-> MkFacts({}, "Error", v, LicenseOf(v), FALSE),
                    dependency_type |-> dependency_type, results |-> <<>>]
          IN val_probe' = <<[dependency_type |-> dependency_type,
                             outcome |-> Evaluate(c, val_metric)]>>
    /\ UNCHANGED <<val_metric, val_policies, val_warnings>>

ValidateInit ==
    /\ TrackerIdle
    /\ ScanIdle
    /\ RankIdle
    /\ GateIdle
    /\ IndicatorIdle
    /\ LicenseIdle
    /\ GitIdle
    /\ ProviderIdle
    /\ RowsIdle
    /\ val_metric \in ValidatedMetrics
    /\ val_policies \in PolicyLists(val_metric)
    /\ val_warnings = <<>>
    /\ val_probe = <<>>

ValidateNext ==
    /\ validate_config \/ evaluate_metric
    /\ UNCHANGED <<trackerVars, scanVars, rankVars, gateVars, indicatorVars,
                   licenseVars, gitVars, providerVars, rowVars>>

ValidateSpec == ValidateInit /\ [][ValidateNext]_vars

\* the evaluation selected policy #j as the matching policy
Selected(j) ==
    /\ val_probe[1].outcome.tag = "Match"
    /\ val_probe[1].outcome.points =
           scale_points([metric_scaling |-> <<>>], val_metric, val_policies[j].points)

\* C22: whenever validate reports that policy #i dominates policy #j of a
\* metric for the overlapping dependency types D, the metric calculator
\* selects policy #j for no facts and no dependency type of D; and a pair of
\* policies with disjoint dependency types is never reported.
C22_DominatedIsUnreachable ==
    val_warnings # <<>> =>
        \A w \in val_warnings[1] :
            /\ w.overlap # {}
            /\ w.overlap = val_policies[w.i].dependency_types
                               \cap val_policies[w.j].dependency_types
            /\ val_probe # <<>> /\ val_probe[1].dependency_type \in w.overlap
                   => ~Selected(w.j)

(***************************************************************************)
(* Repository cache (git)                                                  *)
(***************************************************************************)
MaxGitCalls == 2

\* what git can write to stderr when it exits unsuccessfully
StderrTexts ==
    {"", "fatal: repository not found", "ERROR: Repository Not Found.",
     "fatal: remote branch does not exist", "remote: The project DOES NOT EXIST",
     "fatal: Authentication failed"}

\* the results of run_git_with_timeout: the output of a process that exited,
\* or an error (git could not be spawned or waited for, or it timed out)
Exited(success, stderr) == [tag |-> "Ok", success |-> success, stderr |-> stderr]
GitOutputs ==
    {Exited(TRUE, "")} \cup {Exited(FALSE, text) : text \in StderrTexts}
        \cup {[tag |-> "Err"]}

Run(command, output) == [command |-> command, output |-> output]

\* is_repo_not_found without the conversion to lower case
is_repo_not_found_as_written(stderr) ==
    contains(stderr, "not found") \/ contains(stderr, "does not exist")

\* is_repo_not_found
is_repo_not_found(stderr) ==
    LET stderr_lower == to_lowercase(stderr)
    IN contains(stderr_lower, "not found") \/ contains(stderr_lower, "does not exist")

\* check_git_output that accepts every output
check_git_output_any(output) == TRUE

\* check_git_output: Ok(()) exactly for a successful exit
check_git_output(output) ==
    output.success

\* get_repo returns: the call is over
git_return(status) ==
    /\ git_status' = <<status>>
    /\ git_pc' = "done"

\* a caller starts get_repo on the cached path
get_repo ==
    /\ git_pc \in {"off", "done"}
    /\ git_calls < MaxGitCalls
    /\ git_calls' = git_calls + 1
    /\ git_pc' = "core"
    /\ git_runs' = <<>>
    /\ git_status' = <<>>
    /\ UNCHANGED repo_dir

\* get_repo_core up to its first git subprocess; create_dir_all and
\* remove_dir_all can fail
get_repo_core ==
    /\ git_pc = "core"
    /\ \E fs_ok \in BOOLEAN :
          IF repo_dir = "repo"
          THEN /\ git_pc' = "fetch"
               /\ UNCHANGED <<repo_dir, git_status>>
          ELSE IF fs_ok
               THEN /\ git_pc' = "clone"
                    /\ repo_dir' = "missing"
                    /\ UNCHANGED git_status
               ELSE /\ git_return("Err")
                    /\ UNCHANGED repo_dir
    /\ UNCHANGED <<git_runs, git_calls>>

\* git fetch and what get_repo_core does with its output
git_fetch ==
    /\ git_pc = "fetch"
    /\ \E output \in GitOutputs, fs_ok \in BOOLEAN :
          /\ git_runs' = Append(git_runs, Run("fetch", output))
          /\ IF output.tag = "Err"
             THEN git_return("Err") /\ UNCHANGED repo_dir
             ELSE IF ~output.success
                  THEN IF fs_ok
                       THEN /\ repo_dir' = "missing"
                            /\ git_pc' = "clone"
                            /\ UNCHANGED git_status
                       ELSE git_return("Err") /\ UNCHANGED repo_dir
                  ELSE /\ git_pc' = "reset"
                       /\ UNCHANGED <<repo_dir, git_status>>
    /\ UNCHANGED git_calls

\* git reset --hard origin/HEAD and the end of get_repo_core
git_reset ==
    /\ git_pc = "reset"
    /\ \E output \in GitOutputs :
          /\ git_runs' = Append(git_runs, Run("reset", output))
          /\ IF output.tag = "Err" THEN git_return("Err")
             ELSE IF ~check_git_output(output) THEN git_return("Err")
             ELSE git_return("Ok")
    /\ UNCHANGED <<repo_dir, git_calls>>

\* clone_repo; a clone that was cut short can leave a partial directory
clone_repo ==
    /\ git_pc = "clone"
    /\ \E output \in GitOutputs, left \in {"missing", "no_git"} :
          /\ git_runs' = Append(git_runs, Run("clone", output))
          /\ IF output.tag = "Err"
             THEN git_return("Err") /\ repo_dir' = left
             ELSE IF output.success
                  THEN git_return("Ok") /\ repo_dir' = "repo"
                  ELSE /\ repo_dir' = left
                       /\ IF is_repo_not_found(output.stderr)
                          THEN git_return("NotFound")
                          ELSE git_return("Err")
    /\ UNCHANGED git_calls

GitInit ==
    /\ TrackerIdle
    /\ ScanIdle
    /\ RankIdle
    /\ GateIdle
    /\ IndicatorIdle
    /\ LicenseIdle
    /\ ValidateIdle
    /\ ProviderIdle
    /\ RowsIdle
    /\ git_pc = "off"
    /\ repo_dir \in {"missing", "no_git", "repo"}
    /\ git_runs = <<>>
    /\ git_status = <<>>
    /\ git_calls = 0

GitNext ==
    /\ get_repo \/ get_repo_core \/ git_fetch \/ git_reset \/ clone_repo
    /\ UNCHANGED <<trackerVars, scanVars, rankVars, gateVars, indicatorVars,
                   licenseVars, validateVars, providerVars, rowVars>>

GitSpec == GitInit /\ [][GitNext]_vars

\* the last git subprocess of the current call, which has run one
LastRun == git_runs[Len(git_runs)]

ClonedLast == git_runs # <<>> /\ LastRun.command = "clone"

\* the text of stderr holds one of the two phrases, in any letter case
SaysNotFound(stderr) ==
    stderr \in {"fatal: repository not found", "ERROR: Repository Not Found.",
                "fatal: remote branch does not exist",
                "remote: The project DOES NOT EXIST"}

\* C23: a git clone that exits unsuccessfully with stderr containing
\* "not found" or "does not exist", in any letter case, makes get_repo return
\* Ok(RepoStatus::NotFound); any other clone failure makes it return an
\* error; a successful clone makes it return RepoStatus::Ok.
C23_CloneOutcome ==
    git_pc = "done" /\ ClonedLast =>
        git_status[1] =
            IF LastRun.output.tag = "Err" THEN "Err"
            ELSE IF LastRun.output.success THEN "Ok"
            ELSE IF SaysNotFound(LastRun.output.stderr) THEN "NotFound"
            ELSE "Err"

C23_Witness ==
    /\ git_pc = "done"
    /\ ClonedLast
    /\ LastRun.output.tag = "Ok"
    /\ ~LastRun.output.success
    /\ LastRun.output.stderr = "ERROR: Repository Not Found."
    /\ git_status = <<"NotFound">>

\* the output of a git subprocess that exited successfully
Succeeded(run) == run.output.tag = "Ok" /\ run.output.success

\* the output of a git subprocess that exited unsuccessfully
Failed(run) == run.output.tag = "Ok" /\ ~run.output.success

\* one step of a call of get_repo keeps to the sync protocol
SyncStep ==
    /\ git_pc = "core" /\ repo_dir = "repo" => git_pc' = "fetch"
    /\ git_pc = "core" /\ repo_dir # "repo" =>
          \/ git_pc' = "clone" /\ repo_dir' = "missing"
          \/ git_status' = <<"Err">> /\ repo_dir' = repo_dir
    /\ git_pc = "fetch" /\ Succeeded(git_runs'[1]) => git_pc' = "reset"
    /\ git_pc = "fetch" /\ Failed(git_runs'[1]) =>
          \/ git_pc' = "clone" /\ repo_dir' = "missing"
          \/ git_status' = <<"Err">> /\ repo_dir' = repo_dir
    /\ git_pc \in {"clone", "reset"} => git_pc' = "done"
    /\ git_pc' = "clone" => git_pc \in {"core", "fetch"}
    /\ git_pc' = "reset" => git_pc = "fetch"
    /\ git_status' = <<"Ok">> =>
          \/ git_runs'[Len(git_runs')].command = "clone"
                /\ Succeeded(git_runs'[Len(git_runs')])
          \/ /\ Len(git_runs') = 2
             /\ git_runs'[1].command = "fetch" /\ Succeeded(git_runs'[1])
             /\ git_runs'[2].command = "reset" /\ Succeeded(git_runs'[2])
    /\ Len(git_runs') <= 2
    /\ Cardinality({k \in 1..Len(git_runs') : git_runs'[k].command = "clone"}) <= 1

\* C26: get_repo clones when the cached path does not exist; when the path
\* has no .git directory, or git fetch exits unsuccessfully, it deletes the
\* directory and attempts one fresh clone, with no further retry; when fetch
\* succeeds it runs reset --hard origin/HEAD; it returns RepoStatus::Ok only
\* after a successful clone or a successful fetch followed by a successful
\* reset; and every call ends after at most two git subprocess runs.
C26_SyncProtocol == [][SyncStep]_vars

C26_Witness ==
    /\ git_pc = "done"
    /\ Len(git_runs) = 2
    /\ git_runs[1].command = "fetch" /\ Failed(git_runs[1])
    /\ git_runs[2].command = "clone" /\ Succeeded(git_runs[2])
    /\ git_status = <<"Ok">>
    /\ repo_dir = "repo"

(***************************************************************************)
(* Advisory provider initialisation                                        *)
(***************************************************************************)
MaxProviderCalls == 4

\* Provider::new returns
provider_return(result) ==
    /\ db_result' = <<result>>
    /\ db_pc' = "done"

\* Provider::new up to its first blocking call: needs_fetch is whether the
\* sync marker is a Miss
provider_new ==
    /\ db_pc \in {"off", "done"}
    /\ db_calls < MaxProviderCalls
    /\ db_calls' = db_calls + 1
    /\ db_events' = <<>>
    /\ db_result' = <<>>
    /\ LET needs_fetch == sync_marker = "Miss"
       IN db_pc' = IF needs_fetch THEN "download" ELSE "open"
    /\ UNCHANGED <<sync_marker, db_repo>>

\* download_db: Repository::fetch clones the database into the repo
\* directory, or fails and leaves it as it was or without a .git
download_db ==
    /\ db_pc = "download"
    /\ db_events' = Append(db_events, "download")
    /\ \/ db_repo' = "clone" /\ db_pc' = "save" /\ UNCHANGED db_result
       \/ db_repo' \in {db_repo, "no_git"} /\ provider_return("Err")
    /\ UNCHANGED <<sync_marker, db_calls>>

\* cache.save(sync_filename, &()) and its ?
cache_save ==
    /\ db_pc = "save"
    /\ db_events' = Append(db_events, "save")
    /\ \/ sync_marker' = "Hit" /\ db_pc' = "open" /\ UNCHANGED db_result
       \/ provider_return("Err") /\ UNCHANGED sync_marker
    /\ UNCHANGED <<db_repo, db_calls>>

\* open_db and the end of Provider::new: Database::open reads the advisory
\* files of the directory; it fails on a directory that is missing, and on
\* a working tree without .git it succeeds or fails with what is left of
\* the files
open_db ==
    /\ db_pc = "open"
    /\ db_events' = Append(db_events, "open")
    /\ \E opened \in BOOLEAN :
          /\ db_repo = "missing" => ~opened
          /\ db_repo = "clone" => opened
          /\ provider_return(IF opened THEN "Ok" ELSE "Err")
    /\ UNCHANGED <<sync_marker, db_repo, db_calls>>

\* between two runs the marker ages past its TTL, and the cache directory
\* can lose its working tree
cache_ages ==
    /\ db_pc = "done"
    /\ \/ sync_marker = "Hit" /\ sync_marker' = "Stale" /\ UNCHANGED db_repo
       \/ db_repo = "clone" /\ db_repo' = "no_git" /\ UNCHANGED sync_marker
    /\ UNCHANGED <<db_pc, db_events, db_result, db_calls>>

ProviderInit ==
    /\ TrackerIdle
    /\ ScanIdle
    /\ RankIdle
    /\ GateIdle
    /\ IndicatorIdle
    /\ LicenseIdle
    /\ ValidateIdle
    /\ GitIdle
    /\ RowsIdle
    /\ db_pc = "off"
    /\ sync_marker \in {"Hit", "Stale", "Miss"}
    /\ db_repo \in {"missing", "no_git", "clone"}
    /\ db_events = <<>>
    /\ db_result = <<>>
    /\ db_calls = 0

ProviderNext ==
    /\ provider_new \/ download_db \/ cache_save \/ open_db \/ cache_ages
    /\ UNCHANGED <<trackerVars, scanVars, rankVars, gateVars, indicatorVars,
                   licenseVars, validateVars, gitVars, rowVars>>

ProviderSpec == ProviderInit /\ [][ProviderNext]_vars

\* C24: when the sync marker is Hit or Stale, Provider::new opens the
\* existing clone without downloading, and when that working tree is
\* corrupt (its .git is missing) it falls back to cloning the database again
\* instead of failing; when the marker is Miss it clones the database first
\* and records the sync marker afterwards.
C24_ProviderInitialisation ==
    [][/\ db_pc = "open" /\ db_events = <<>> /\ db_repo = "clone" =>
            db_events' = <<"open">> /\ db_result' = <<"Ok">>
       /\ db_pc = "open" /\ db_events = <<>> /\ db_repo = "no_git" =>
            db_pc' = "download" /\ db_result' = <<>>
       /\ db_pc = "save" => db_events = <<"download">> /\ db_repo = "clone"
       /\ sync_marker' # sync_marker /\ db_pc # "done" =>
            db_pc = "save" /\ sync_marker' = "Hit"]_vars

(***************************************************************************)
(* Row iterator                                                            *)
(***************************************************************************)
MaxRows == 3
MaxRowBytes == 2
MaxExtraCalls == 2

\* RowReader::position
position(reader) == reader.position

\* read_fn: reads the next row of the table and moves the reader past it
read_fn(reader, widths) ==
    [row |-> [number |-> reader.rows_read + 1],
     reader |-> [position |-> reader.position + widths[reader.rows_read + 1],
                 rows_read |-> reader.rows_read + 1]]

\* RowIter::new
RowIter_new(num_rows) ==
    [reader |-> [position |-> 0, rows_read |-> 0], rows_remaining |-> num_rows]

None == [tag |-> "None"]
Some(row, index) == [tag |-> "Some", row |-> row, index |-> index]

\* RowIter::next with the index taken after the row was read
next_index_after_read(self, widths) ==
    IF self.rows_remaining = 0 THEN [self |-> self, item |-> None]
    ELSE LET read == read_fn(self.reader, widths)
         IN [self |-> [reader |-> read.reader,
                       rows_remaining |-> self.rows_remaining - 1],
             item |-> Some(read.row, position(read.reader))]

\* RowIter::next: the iterator it leaves and the item it returns
next(self, widths) ==
    IF self.rows_remaining = 0 THEN [self |-> self, item |-> None]
    ELSE LET row_position == position(self.reader)
             read == read_fn(self.reader, widths)
         IN [self |-> [reader |-> read.reader,
                       rows_remaining |-> self.rows_remaining - 1],
             item |-> Some(read.row, row_position)]

\* RowIter::size_hint; the cast to usize keeps the count of a table, which
\* holds fewer rows than usize::MAX
size_hint(self) ==
    LET remaining == self.rows_remaining
    IN <<remaining, <<remaining>>>>

\* a caller takes the next item
row_next ==
    /\ Len(row_items) < Len(row_widths) + MaxExtraCalls
    /\ LET r == next(row_iter, row_widths)
       IN /\ row_iter' = r.self
          /\ row_items' = Append(row_items, r.item)
    /\ row_hint' = <<>>
    /\ UNCHANGED row_widths

\* a caller asks for the size hint
row_size_hint ==
    /\ row_hint = <<>>
    /\ row_hint' = <<size_hint(row_iter)>>
    /\ UNCHANGED <<row_widths, row_iter, row_items>>

\* a table of up to MaxRows rows, each of at least one byte, and the RowIter
\* the table code makes for it with the row count of the table
RowsInit ==
    /\ TrackerIdle
    /\ ScanIdle
    /\ RankIdle
    /\ GateIdle
    /\ IndicatorIdle
    /\ LicenseIdle
    /\ ValidateIdle
    /\ GitIdle
    /\ ProviderIdle
    /\ row_widths \in UNION {[1..n -> 1..MaxRowBytes] : n \in 0..MaxRows}
    /\ row_iter = RowIter_new(Len(row_widths))
    /\ row_items = <<>>
    /\ row_hint = <<>>

RowsNext ==
    /\ row_next \/ row_size_hint
    /\ UNCHANGED <<trackerVars, scanVars, rankVars, gateVars, indicatorVars,
                   licenseVars, validateVars, gitVars, providerVars>>

RowsSpec == RowsInit /\ [][RowsNext]_vars

\* the byte at which row k of the table starts
RECURSIVE RowOffset(_)
RowOffset(k) == IF k = 1 THEN 0 ELSE RowOffset(k - 1) + row_widths[k - 1]

\* the pairs next has returned so far
PairsYielded == Cardinality({k \in 1..Len(row_items) : row_items[k].tag = "Some"})

\* C25: a RowIter created with num_rows yields exactly num_rows (row, index)
\* pairs and then None on every further call; size_hint returns (r, Some(r))
\* with r the exact number of pairs still to come; each index is the byte
\* position of the reader just before the row was read, so the rows come in
\* input order with increasing indices.
C25_RowIter ==
    LET num_rows == Len(row_widths)
    IN /\ \A k \in 1..Len(row_items) :
             IF k <= num_rows
             THEN row_items[k] = Some([number |-> k], RowOffset(k))
             ELSE row_items[k] = None
       /\ \A k \in 2..Len(row_items) :
             row_items[k].tag = "Some" => row_items[k].index > row_items[k - 1].index
       /\ row_hint # <<>> =>
             LET r == num_rows - PairsYielded
             IN r >= 0 /\ row_hint[1] = <<r, <<r>>>>

C25_Witness ==
    /\ Len(row_widths) = 2
    /\ Len(row_items) = 3
    /\ row_items[2].tag = "Some" /\ row_items[2].index > 0
    /\ row_items[3] = None
    /\ row_hint = <<<<0, <<0>>>>>>

(***************************************************************************)
(* Properties of the commit activity metric and of the NoMatch reasons     *)
(***************************************************************************)
\* the CommitActivity policies of the config that apply to the dependency
\* type of the call, have the window of 90 days and are met by the commits
\* of the last three months
CommitMatches ==
    LET policies == rank_config.policies["CommitActivity"]
    IN {i \in 1..Len(policies) :
           /\ rank_dependency_type \in policies[i].dependency_types
           /\ policies[i].max_days = 90
           /\ rank_facts.hosting_data.data.commits_last_3_months
                  >= policies[i].min_count}

\* C27: for CommitActivity a policy whose max_days is not 90 is ignored: it
\* never matches, it does not stop a later 90-day policy from matching, and
\* a 90-day policy matches iff the commits of the last 90 days are at least
\* its min_count; the outcome is that of the first such policy.
C27_CommitActivityWindow ==
    "CommitActivity" \in DOMAIN policy_outcomes =>
        LET outcome == policy_outcomes["CommitActivity"]
            policies == rank_config.policies["CommitActivity"]
        IN IF CommitMatches = {} THEN outcome.tag = "NoMatch"
           ELSE /\ outcome.tag = "Match"
                /\ outcome.points = ScaleOne * policies[Min(CommitMatches)].points
                /\ outcome.text.need = 90

C27_Witness ==
    /\ "CommitActivity" \in DOMAIN policy_outcomes
    /\ policy_outcomes["CommitActivity"].tag = "Match"
    /\ Min(CommitMatches) = 2
    /\ rank_dependency_type \in rank_config.policies["CommitActivity"][1].dependency_types
    /\ rank_config.policies["CommitActivity"][1].max_days # 90
    /\ rank_config.policies["CommitActivity"][1].points
          # rank_config.policies["CommitActivity"][2].points

\* the field of a policy of metric m that holds its bound
BoundField(m) ==
    CASE MetricKind(m) = "age" -> "min_days"
      [] MetricKind(m) = "version" -> "min_major_version"
      [] MetricKind(m) = "percentage" -> "min_percentage"
      [] MetricKind(m) \in {"min", "commit", "release"} -> "min_count"
      [] OTHER -> "max_count"

\* the bounds of the policies of metric m that apply to the dependency type
ApplicableBounds(m) ==
    {rank_config.policies[m][i][BoundField(m)] :
        i \in {j \in 1..Len(rank_config.policies[m]) :
                 rank_dependency_type \in rank_config.policies[m][j].dependency_types}}

\* the reason of a NoMatch cites a bound that the observed value fails and
\* that is the least demanding one of the applicable policies
CitedBoundFails(m) ==
    LET reason == policy_outcomes[m].text
    IN policy_outcomes[m].tag = "NoMatch" /\ reason.cites \in {">=", "<="} =>
          /\ ApplicableBounds(m) # {}
          /\ IF reason.cites = ">="
             THEN reason.observed < reason.need
                     /\ reason.need = Min(ApplicableBounds(m))
             ELSE reason.observed > reason.need
                     /\ reason.need = Max(ApplicableBounds(m))

\* C30: whenever the calculator records a NoMatch whose reason cites a bound
\* (need >= b or need <= b), the observed value fails that bound, b being the
\* least demanding bound among the policies that apply to the dependency
\* type; for every metric, CommitActivity with only policies of a window
\* other than 90 days included.
C30_CitedBoundIsFailed ==
    \A m \in DOMAIN policy_outcomes : CitedBoundFails(m)

(***************************************************************************)
(* Properties of the advisory counters                                     *)
(***************************************************************************)
\* every AdvisoryData of the scan: those of the crate map and those the
\* returned iterator has yielded
ScannedData ==
    UNION {{crate_map[name][k].result.data : k \in 1..Len(crate_map[name])} :
              name \in DOMAIN crate_map}
        \cup {scan_output[k].result.data : k \in 1..Len(scan_output)}

CounterPairs ==
    {<<"vulnerability_count", "historical_vulnerability_count">>,
     <<"low_vulnerability_count", "historical_low_vulnerability_count">>,
     <<"medium_vulnerability_count", "historical_medium_vulnerability_count">>,
     <<"high_vulnerability_count", "historical_high_vulnerability_count">>,
     <<"critical_vulnerability_count", "historical_critical_vulnerability_count">>,
     <<"warning_count", "historical_warning_count">>,
     <<"notice_warning_count", "historical_notice_warning_count">>,
     <<"unmaintained_warning_count", "historical_unmaintained_warning_count">>,
     <<"unsound_warning_count", "historical_unsound_warning_count">>,
     <<"yanked_warning_count", "historical_yanked_warning_count">>}

\* C28: in every AdvisoryData of scan_advisories each version-specific
\* counter is at most its historical counterpart; an advisory adds to the
\* warning total or to the vulnerability total, never to both, so the two
\* totals together count no more than the advisories checked; the severity
\* buckets sum to at most the vulnerability total and the kind buckets
\* (notice, unmaintained, unsound, yanked) to at most the warning total.
C28_AdvisoryCounters ==
    \A data \in ScannedData :
        /\ \A pair \in CounterPairs : data[pair[1]] <= data[pair[2]]
        /\ data.historical_warning_count + data.historical_vulnerability_count
              <= advisories_checked
        /\ data.warning_count + data.vulnerability_count <= advisories_checked
        /\ data.low_vulnerability_count + data.medium_vulnerability_count
              + data.high_vulnerability_count + data.critical_vulnerability_count
              <= data.vulnerability_count
        /\ data.historical_low_vulnerability_count
              + data.historical_medium_vulnerability_count
              + data.historical_high_vulnerability_count
              + data.historical_critical_vulnerability_count
              <= data.historical_vulnerability_count
        /\ data.notice_warning_count + data.unmaintained_warning_count
              + data.unsound_warning_count + data.yanked_warning_count
              <= data.warning_count
        /\ data.historical_notice_warning_count
              + data.historical_unmaintained_warning_count
              + data.historical_unsound_warning_count
              + data.historical_yanked_warning_count
              <= data.historical_warning_count

C28_Witness ==
    /\ scan_pc = "done"
    /\ \E k \in 1..Len(scan_output) :
          /\ scan_output[k].result.data.vulnerability_count = 1
          /\ scan_output[k].result.data.high_vulnerability_count = 1
          /\ scan_output[k].result.data.historical_vulnerability_count = 1
          /\ scan_output[k].result.data.historical_warning_count = 0
    /\ \E k \in 1..Len(scan_output) :
          /\ scan_output[k].result.data.vulnerability_count = 0
          /\ scan_output[k].result.data.historical_vulnerability_count = 1

(***************************************************************************)
(* Monotonic visibility                                                    *)
(***************************************************************************)
\* C29: the visibility of the ProgressReporter is monotonic: once the
\* indicator has become visible no later operation (set_message with an
\* empty string, enable_determinate_mode(0), a mode switch, finish_and_clear
\* or any other) makes it hidden again, and the has-content marker, once
\* set, is never cleared.
C29_VisibilityIsMonotonic ==
    [][(visible => visible') /\ (has_content => has_content')]_vars

C29_Witness ==
    /\ visible
    /\ has_content
    /\ bar_finished
    /\ bar_message = <<>>
    /\ bar_length = 0
    /\ ~is_indeterminate

====
